---------------------------- MODULE Spec2Model ----------------------------
(***************************************************************************)
(* Audience-adaptive disaster-report summarization: the engine adapter     *)
(* (DisasterSummarizer.generate_summary), the three-pass orchestrator      *)
(* (generate_all_summaries) and the structured report orchestrator         *)
(* (StructuredReportGenerator), the page's cached summarizer (app.py) and  *)
(* the audio pipeline (SpeechToText, VoiceToSummaryPipeline), and the      *)
(* report post-processing (_post_process_report).                          *)
(* Python strings are TLA+ strings; the                                    *)
(* string operations the code uses (strip, lower, in, startswith, replace, *)
(* slicing) are defined below character by character.                      *)
(***************************************************************************)
EXTENDS Integers, Sequences, FiniteSets, TLC

VARIABLES
    op,          \* operation the caller invoked: "none" before any call
    pc,          \* position inside the operation
    text,        \* the text argument of the operation
    args,        \* remaining arguments of a direct generate_summary call
    adapterLog,  \* calls of generate_summary made so far, with what each returned
    engineLog,   \* calls of self.summarizer(...) made so far, with their outcome
    memo,        \* what the engine answered to each request with sampling off
    triple,      \* alert / short / detailed, as they are assigned
    title,       \* local `title` of generate_structured_report
    sections,    \* local dict `sections` of generate_structured_report
    report,      \* the assembled document
    result,      \* value returned to the caller
    raised,      \* exception that reached the caller ("none" when none did)
    prev,        \* logs and result of the previous invocation on this summarizer
    today,       \* what datetime.now().strftime("%B %d, %Y") gives at this moment
    current_date,   \* local `current_date` of generate_structured_report
    disaster_type,  \* local `disaster_type` of generate_structured_report
    session_state,  \* st.session_state of the page: a dict whose keys appear as they are set
    built,          \* number of DisasterSummarizer constructions started so far
    callers,        \* each script run of the page: its position, inputs and locals
    files,          \* paths that exist on the file system
    audio_path,     \* the path handed to the audio operation
    tmp_path,       \* local `tmp_path` of process_audio_bytes ("<None>" before it is set)
    transcript,     \* local `transcribed_text` of process_audio_file
    backend,        \* what self.model.transcribe(...) did when it was called
    errorMsg        \* str(e) of the exception that reached the caller

vars == <<op, pc, text, args, adapterLog, engineLog, memo, triple, title,
          sections, report, result, raised, prev, today, current_date,
          disaster_type, session_state, built, callers, files, audio_path,
          tmp_path, transcript, backend, errorMsg>>

reportVars == <<title, sections, report, current_date, disaster_type>>

sessionVars == <<session_state, built, callers>>

audioVars == <<files, audio_path, tmp_path, transcript, backend, errorMsg>>

hostVars == <<sessionVars, audioVars>>

-----------------------------------------------------------------------------
(* Python str operations *)

Char(s, i) == SubSeq(s, i, i)

Whitespace == {" ", "\t", "\n", "\r", "\f"}

IsSpace(c) == c \in Whitespace

UpperLetters == "ABCDEFGHIJKLMNOPQRSTUVWXYZ"

LowerLetters == "abcdefghijklmnopqrstuvwxyz"

\* str.lower() on one character: ASCII letters
LowerOf ==
    [c \in {Char(UpperLetters, i) : i \in 1..Len(UpperLetters)} |->
        Char(LowerLetters, CHOOSE i \in 1..Len(UpperLetters) : Char(UpperLetters, i) = c)]

LowerChar(c) == IF c \in DOMAIN LowerOf THEN LowerOf[c] ELSE c

\* characters lo..hi of s in lower case, by halves
RECURSIVE LowerBetween(_, _, _)
LowerBetween(s, lo, hi) ==
    IF lo > hi THEN ""
    ELSE IF lo = hi THEN LowerChar(Char(s, lo))
    ELSE LET mid == (lo + hi) \div 2
         IN LowerBetween(s, lo, mid) \o LowerBetween(s, mid + 1, hi)

\* s.lower()
Lower(s) == LowerBetween(s, 1, Len(s))

\* s[:n]
Take(s, n) == IF Len(s) <= n THEN s ELSE SubSeq(s, 1, n)

\* number of white space characters s starts with
LeadingSpaces(s) ==
    IF \A i \in 1..Len(s) : IsSpace(Char(s, i)) THEN Len(s)
    ELSE CHOOSE k \in 0..(Len(s) - 1) :
            /\ ~IsSpace(Char(s, k + 1))
            /\ \A j \in 1..k : IsSpace(Char(s, j))

\* number of white space characters s ends with
TrailingSpaces(s) ==
    IF \A i \in 1..Len(s) : IsSpace(Char(s, Len(s) + 1 - i)) THEN Len(s)
    ELSE CHOOSE k \in 0..(Len(s) - 1) :
            /\ ~IsSpace(Char(s, Len(s) - k))
            /\ \A j \in 1..k : IsSpace(Char(s, Len(s) + 1 - j))

\* s.strip()
Strip(s) == SubSeq(s, LeadingSpaces(s) + 1, Len(s) - TrailingSpaces(s))

\* number of '.' characters s ends with
TrailingDots(s) ==
    IF \A i \in 1..Len(s) : Char(s, Len(s) + 1 - i) = "." THEN Len(s)
    ELSE CHOOSE k \in 0..(Len(s) - 1) :
            /\ Char(s, Len(s) - k) # "."
            /\ \A j \in 1..k : Char(s, Len(s) + 1 - j) = "."

\* s.rstrip('.')
RStripDots(s) == SubSeq(s, 1, Len(s) - TrailingDots(s))

\* positions at which sub occurs in s
Occurrences(s, sub) ==
    {i \in 1..(Len(s) - Len(sub) + 1) : SubSeq(s, i, i + Len(sub) - 1) = sub}

\* sub in s
Contains(s, sub) == Occurrences(s, sub) # {}

\* s.startswith(p)
StartsWith(s, p) == Len(p) <= Len(s) /\ SubSeq(s, 1, Len(p)) = p

\* s.replace(old, new, 1)
ReplaceFirst(s, old, new) ==
    IF ~Contains(s, old) THEN s
    ELSE LET i == CHOOSE k \in Occurrences(s, old) : \A m \in Occurrences(s, old) : k <= m
         IN SubSeq(s, 1, i - 1) \o new \o SubSeq(s, i + Len(old), Len(s))

\* IsBlank without the strip(): only the empty string counts as no text
IsBlankEmptyOnly(s) == Len(s) = 0

\* not text or len(text.strip()) == 0
IsBlank(s) == Len(s) = 0 \/ Len(s) - LeadingSpaces(s) = 0

-----------------------------------------------------------------------------
(* The summarization engine: an external collaborator *)

\* Python's None, for an optional argument that was not supplied
None == "<None>"

\* truthiness of an optional string argument
Truthy(v) == v # None /\ v # ""

\* What one call self.summarizer(...) can do: return [{"summary_text": s}],
\* raise an exception e (payload is str(e)), or return a response that
\* result[0]["summary_text"] cannot read (payload names its shape).
Ok(s) == [kind |-> "ok", payload |-> s]

Raise(reason) == [kind |-> "raise", payload |-> reason]

Malformed(shape) == [kind |-> "malformed", payload |-> shape]

\* str(e) of the exception that reading a malformed response raises
MalformedReason(shape) ==
    IF shape = "empty_list" THEN "list index out of range"   \* IndexError
    ELSE "'summary_text'"                                     \* KeyError

OutcomePool == <<
    Ok("Flood waters rose across the valley after heavy rain."),
    Raise("CUDA out of memory."),
    Ok("  **IMPACT & DAMAGE (Figures & Facts)**\nA powerful storm destroyed homes. \n"),
    Malformed("missing_key"),
    Ok(" \n"),
    Raise(""),
    Ok(""),
    Raise("connection reset \n"),
    Malformed("empty_list"),
    Ok("A powerful earthquake shook the northern region on Monday."),
    Raise(" timeout") >>

\* s * n
RECURSIVE Times(_, _)
Times(s, n) ==
    IF n = 0 THEN ""
    ELSE IF n % 2 = 0 THEN LET half == Times(s, n \div 2) IN half \o half
    ELSE s \o Times(s, n - 1)

\* a report of exactly max_input_length * 4 characters
FullLengthText == Times("Rain fell again ", 256)

TextPool == <<
    "A 7.2 magnitude earthquake struck at 3:45 AM; 50 injured, 5 dead.",
    "",
    "Flood water entered homes.",
    " \n\t",
    "  Storm surge and fire reported near the harbour.  ",
    FullLengthText,
    FullLengthText \o "until the dam failed at dawn." >>

\* number of engine outcomes a run of generate_all_summaries draws from
NumOutcomesTriple == 6

\* number of engine outcomes a run of generate_structured_report draws from
NumOutcomesReport == 3

\* number of engine outcomes a run of the combined operation draws from
NumOutcomesFull == 2

\* number of input texts an orchestrated run draws from
NumTexts == 3

Min(a, b) == IF a <= b THEN a ELSE b

AllOutcomes == {OutcomePool[i] : i \in 1..Len(OutcomePool)}

AllTexts == {TextPool[i] : i \in 1..Len(TextPool)}

Outcomes(n) == {OutcomePool[i] : i \in 1..Min(n, Len(OutcomePool))}

Texts == {TextPool[i] : i \in 1..Min(NumTexts, Len(TextPool))}

\* the request the engine sees
EngineRequest(prompt, maxl, minl, samp) ==
    [prompt |-> prompt, max_length |-> maxl, min_length |-> minl,
     do_sample |-> samp, truncation |-> TRUE]

\* The engine is deterministic when sampling is off: a request it has
\* answered gets the same answer again.
EngineAnswers(req, universe, m) ==
    IF ~req.do_sample /\ req \in DOMAIN m THEN {m[req]} ELSE universe

Remember(m, req, out) ==
    IF req.do_sample THEN m ELSE (req :> out) @@ m

-----------------------------------------------------------------------------
(* DisasterSummarizer.generate_summary *)

max_input_length == 1024

CharsPerToken == 4

GENERAL_PUBLIC == "general_public"

EMERGENCY_RESPONDERS == "emergency_responders"

AUTHORITIES == "authorities"

RoleGuidance(role) ==
    IF role = GENERAL_PUBLIC THEN
        <<"AUDIENCE: GENERAL PUBLIC. TASK: Write a simple, non-technical, easy-to-understand summary that explains what happened and basic safety implications.">>
    ELSE IF role = EMERGENCY_RESPONDERS THEN
        <<"AUDIENCE: EMERGENCY RESPONDERS. TASK: Write an operational situation summary focusing on affected areas, current conditions, access constraints, and information useful for field coordination.">>
    ELSE IF role = AUTHORITIES THEN
        <<"AUDIENCE: GOVERNMENT AUTHORITIES. TASK: Write a strategic overview focusing on overall impact, key figures, priorities, and coordination needs for decision-makers.">>
    ELSE << >>

LevelGuidance(level) ==
    IF level = "high" THEN
        <<"ABSTRACTION LEVEL: HIGH. Focus on only the most critical points, avoid technical details, and keep the summary very short.">>
    ELSE IF level = "medium" THEN
        <<"ABSTRACTION LEVEL: MEDIUM. Balance brevity with operationally useful details while keeping the text readable.">>
    ELSE IF level = "low" THEN
        <<"ABSTRACTION LEVEL: LOW. Include key figures, concrete impacts, and nuanced context while remaining concise.">>
    ELSE << >>

\* " ".join(parts)
RECURSIVE JoinSpace(_)
JoinSpace(parts) ==
    IF Len(parts) = 0 THEN ""
    ELSE IF Len(parts) = 1 THEN parts[1]
    ELSE parts[1] \o " " \o JoinSpace(Tail(parts))

\* input_text built from the text as given, without the slice of line 115
BuildPromptUntruncated(t, role, level) ==
    LET guidance_prefix ==
            Strip(JoinSpace((IF Truthy(role) THEN RoleGuidance(role) ELSE << >>)
                            \o (IF Truthy(level) THEN LevelGuidance(level) ELSE << >>)))
    IN IF guidance_prefix # ""
       THEN guidance_prefix \o "\n\nDisaster report:\n" \o t
       ELSE t

\* input_text with the level guidance appended before the role guidance
BuildPromptLevelFirst(t, role, level) ==
    LET base_text == Take(t, max_input_length * CharsPerToken)
        guidance_prefix ==
            Strip(JoinSpace((IF Truthy(level) THEN LevelGuidance(level) ELSE << >>)
                            \o (IF Truthy(role) THEN RoleGuidance(role) ELSE << >>)))
    IN IF guidance_prefix # ""
       THEN guidance_prefix \o "\n\nDisaster report:\n" \o base_text
       ELSE base_text

\* input_text (lines 115-172)
BuildPrompt(t, role, level) ==
    LET base_text == Take(t, max_input_length * CharsPerToken)
        guidance_parts ==
            (IF Truthy(role) THEN RoleGuidance(role) ELSE << >>)
            \o (IF Truthy(level) THEN LevelGuidance(level) ELSE << >>)
        guidance_prefix == Strip(JoinSpace(guidance_parts))
    IN IF Truthy(role) \/ Truthy(level)
       THEN IF guidance_prefix # ""
            THEN guidance_prefix \o "\n\nDisaster report:\n" \o base_text
            ELSE base_text
       ELSE base_text

NoTextSentinel == "No text provided for summarization."

ErrorPrefix == "Error generating summary: "

\* the request generate_summary sends (meaningful when the text is not blank)
SummaryRequest(t, maxl, minl, samp, role, level) ==
    EngineRequest(BuildPrompt(t, role, level), maxl, minl, samp)

\* lines 182-185: what the try block returns for a response that can be read
OnSuccess(summary) == Strip(summary)

\* OnException with the reason left out of the returned string
OnExceptionNoReason(reason) ==
    [ret |-> "Error generating summary", raised |-> "none"]

\* OnException that logs and re-raises, as __init__ does (lines 72-74)
OnExceptionReraise(reason) ==
    [ret |-> "", raised |-> "Exception"]

\* lines 187-189: the handler of `except Exception as e`
OnException(reason) ==
    [ret |-> ErrorPrefix \o reason, raised |-> "none"]

\* generate_summary as a whole, given what the engine does with its request:
\* ret is the returned string, raised the exception leaving the call,
\* calls the engine requests made.
GenerateSummary(t, maxl, minl, samp, role, level, out) ==
    IF IsBlank(t)
    THEN [ret |-> NoTextSentinel, raised |-> "none", calls |-> << >>]
    ELSE LET req == SummaryRequest(t, maxl, minl, samp, role, level)
             outcome ==
                 IF out.kind = "ok"
                 THEN [ret |-> OnSuccess(out.payload), raised |-> "none"]
                 ELSE IF out.kind = "raise"
                 THEN OnException(out.payload)
                 ELSE OnException(MalformedReason(out.payload))
         IN [ret |-> outcome.ret, raised |-> outcome.raised,
             calls |-> <<[req |-> req, out |-> out]>>]

\* the engine outcomes a call of generate_summary can meet
SummaryAnswers(t, maxl, minl, samp, role, level, universe, m) ==
    IF IsBlank(t) THEN {Ok("")}
    ELSE EngineAnswers(SummaryRequest(t, maxl, minl, samp, role, level), universe, m)

\* the memo after a call of generate_summary
SummaryMemo(m, r) ==
    IF Len(r.calls) = 0 THEN m ELSE Remember(m, r.calls[1].req, r.calls[1].out)

\* one entry of adapterLog
AdapterCall(t, maxl, minl, samp, role, level, r) ==
    [text |-> t, max_length |-> maxl, min_length |-> minl, do_sample |-> samp,
     audience_role |-> role, abstraction_level |-> level, ret |-> r.ret,
     raised |-> r.raised, calls |-> r.calls]

-----------------------------------------------------------------------------
(* StructuredReportGenerator: pure helpers *)

AnyIn(words, s) == \E w \in words : Contains(s, w)

\* _detect_disaster_type with the flood test placed before the earthquake test
DetectFloodFirst(t) ==
    LET text_lower == Lower(t)
    IN IF AnyIn({"flood", "flooding", "inundation", "water"}, text_lower) THEN "flood"
       ELSE IF AnyIn({"earthquake", "seismic", "tremor", "richter"}, text_lower) THEN "earthquake"
       ELSE IF AnyIn({"cyclone", "hurricane", "typhoon", "storm"}, text_lower) THEN "cyclone"
       ELSE IF AnyIn({"wildfire", "fire", "blaze", "burning"}, text_lower) THEN "wildfire"
       ELSE IF AnyIn({"tsunami", "tidal wave"}, text_lower) THEN "tsunami"
       ELSE IF AnyIn({"drought", "dry", "water shortage"}, text_lower) THEN "drought"
       ELSE "disaster"

\* _detect_disaster_type
DetectDisasterType(t) ==
    LET text_lower == Lower(t)
    IN IF AnyIn({"earthquake", "seismic", "tremor", "richter"}, text_lower) THEN "earthquake"
       ELSE IF AnyIn({"flood", "flooding", "inundation", "water"}, text_lower) THEN "flood"
       ELSE IF AnyIn({"cyclone", "hurricane", "typhoon", "storm"}, text_lower) THEN "cyclone"
       ELSE IF AnyIn({"wildfire", "fire", "blaze", "burning"}, text_lower) THEN "wildfire"
       ELSE IF AnyIn({"tsunami", "tidal wave"}, text_lower) THEN "tsunami"
       ELSE IF AnyIn({"drought", "dry", "water shortage"}, text_lower) THEN "drought"
       ELSE "disaster"

PrefixLen == 50

MinCollisionLen == 20

\* s[:50].lower().strip()
SectionStart(s) == Strip(Lower(Take(s, PrefixLen)))

\* _ensure_section_diversity, lines 211-219: the details section
DiversifiedDetails(secs) ==
    LET intro_start == SectionStart(secs.introduction)
        details_start == SectionStart(secs.details)
    IN IF intro_start = details_start /\ Len(intro_start) > MinCollisionLen
       THEN IF Contains(Lower(secs.details), "how") \/ Contains(Lower(secs.details), "developed")
            THEN secs.details
            ELSE "The disaster progressed as follows: " \o secs.details
       ELSE secs.details

\* _ensure_section_diversity, lines 222-230: the impact section
DiversifiedImpact(secs) ==
    LET intro_start == SectionStart(secs.introduction)
        details_start == SectionStart(secs.details)
        impact_start == SectionStart(secs.impact)
    IN IF impact_start = intro_start \/ impact_start = details_start
       THEN IF AnyIn({"casualties", "injured", "damage", "destroyed", "evacuated"},
                     Lower(secs.impact))
               /\ (StartsWith(secs.impact, "A powerful") \/ StartsWith(secs.impact, "The disaster"))
            THEN ReplaceFirst(ReplaceFirst(secs.impact, "A powerful", "According to initial reports,"),
                              "The disaster", "Initial assessments indicate")
            ELSE secs.impact
       ELSE secs.impact

\* _ensure_section_diversity with the impact test made on the sections as the
\* details repair left them
EnsureSectionDiversitySequential(secs) ==
    LET repaired == [secs EXCEPT !.details = DiversifiedDetails(secs)]
    IN [repaired EXCEPT !.impact = DiversifiedImpact(repaired)]

\* _ensure_section_diversity: the three starts are taken before any change
EnsureSectionDiversity(secs) ==
    [secs EXCEPT !.details = DiversifiedDetails(secs),
                 !.impact = DiversifiedImpact(secs)]

HeaderTitle == "**TITLE & BYLINE**"

HeaderIntroduction == "**INTRODUCTION (What, When, Where)**"

HeaderDetails == "**DETAILS OF THE EVENT (How)**"

HeaderImpact == "**IMPACT & DAMAGE (Figures & Facts)**"

HeaderResponse == "**RESPONSE & RELIEF EFFORTS**"

HeaderAftermath == "**AFTERMATH & LESSONS LEARNED**"

Headers == <<HeaderTitle, HeaderIntroduction, HeaderDetails, HeaderImpact,
             HeaderResponse, HeaderAftermath>>

\* str.upper() on one character: ASCII letters
UpperOf ==
    [c \in {Char(LowerLetters, i) : i \in 1..Len(LowerLetters)} |->
        Char(UpperLetters, CHOOSE i \in 1..Len(LowerLetters) : Char(LowerLetters, i) = c)]

UpperChar(c) == IF c \in DOMAIN UpperOf THEN UpperOf[c] ELSE c

\* characters lo..hi of s in upper case, by halves
RECURSIVE UpperBetween(_, _, _)
UpperBetween(s, lo, hi) ==
    IF lo > hi THEN ""
    ELSE IF lo = hi THEN UpperChar(Char(s, lo))
    ELSE LET mid == (lo + hi) \div 2
         IN UpperBetween(s, lo, mid) \o UpperBetween(s, mid + 1, hi)

\* s.upper()
Upper(s) == UpperBetween(s, 1, Len(s))

\* s.split('\n')
SplitLines(s) ==
    LET nl == {i \in 1..Len(s) : Char(s, i) = "\n"}
        n == Cardinality(nl)
        Cut(k) == IF k = 0 THEN 0
                  ELSE IF k = n + 1 THEN Len(s) + 1
                  ELSE CHOOSE q \in nl : Cardinality({r \in nl : r < q}) = k - 1
    IN [k \in 1..(n + 1) |-> SubSeq(s, Cut(k - 1) + 1, Cut(k) - 1)]

\* '\n'.join(lines)
RECURSIVE JoinLines(_)
JoinLines(lines) ==
    IF Len(lines) = 0 THEN ""
    ELSE IF Len(lines) = 1 THEN lines[1]
    ELSE lines[1] \o "\n" \o JoinLines(Tail(lines))

\* re.sub(r'\n{3,}', '\n\n', s) on characters lo..hi of s, by halves: of a run of
\* line feeds the first two stay
RECURSIVE CollapseBetween(_, _, _)
CollapseBetween(s, lo, hi) ==
    IF lo > hi THEN ""
    ELSE IF lo = hi
         THEN IF lo >= 3 /\ SubSeq(s, lo - 2, lo) = "\n\n\n" THEN "" ELSE Char(s, lo)
    ELSE LET mid == (lo + hi) \div 2
         IN CollapseBetween(s, lo, mid) \o CollapseBetween(s, mid + 1, hi)

CollapseNewlines(s) == CollapseBetween(s, 1, Len(s))

\* _post_process_report, lines 249-258: sections_map in insertion order
SectionsMap == <<
    <<"TITLE", HeaderTitle>>,
    <<"BYLINE", HeaderTitle>>,
    <<"INTRODUCTION", HeaderIntroduction>>,
    <<"DETAILS", HeaderDetails>>,
    <<"IMPACT", HeaderImpact>>,
    <<"RESPONSE", HeaderResponse>>,
    <<"AFTERMATH", HeaderAftermath>>,
    <<"LESSONS", HeaderAftermath>> >>

HeaderMaxLen == 100

\* lines 270-277: the section of the first key found in the line, None without one
SectionFound(line_stripped) ==
    LET line_upper == Upper(line_stripped)
        hits == {k \in 1..Len(SectionsMap) :
                    Contains(line_upper, SectionsMap[k][1])
                    /\ Len(line_stripped) < HeaderMaxLen}
    IN IF hits = {} THEN None
       ELSE SectionsMap[CHOOSE k \in hits : \A j \in hits : k <= j][2]

\* lines 264-285: the loop over lines[k..], with formatted_lines and last_section
\* as they stand before line k
RECURSIVE FormatLines(_, _, _, _)
FormatLines(lines, k, formatted_lines, last_section) ==
    IF k > Len(lines) THEN formatted_lines
    ELSE LET line_stripped == Strip(lines[k])
             section_found == SectionFound(line_stripped)
         IN IF line_stripped = ""
            THEN FormatLines(lines, k + 1, Append(formatted_lines, ""), last_section)
            ELSE IF section_found # None /\ section_found # last_section
            THEN FormatLines(lines, k + 1,
                             formatted_lines \o <<"", section_found, "">>, section_found)
            ELSE FormatLines(lines, k + 1, Append(formatted_lines, line_stripped),
                             last_section)

\* _post_process_report; date is what datetime.now().strftime gives at line 296
PostProcessReport(r, date) ==
    LET lines == SplitLines(Strip(r))
        joined == CollapseNewlines(JoinLines(FormatLines(lines, 1, << >>, None)))
        withTitle ==
            IF Contains(joined, HeaderTitle) THEN joined
            ELSE HeaderTitle \o "\nDisaster Assessment Report | Generated on " \o date
                 \o "\n\n" \o joined
    IN Strip(withTitle)

\* lines 172-189: the document template
AssembleDocument(ttl, date, secs) ==
    HeaderTitle \o "\n" \o ttl \o "\n"
    \o "Disaster Assessment Report | Generated on " \o date \o "\n\n"
    \o HeaderIntroduction \o "\n" \o secs.introduction \o "\n\n"
    \o HeaderDetails \o "\n" \o secs.details \o "\n\n"
    \o HeaderImpact \o "\n" \o secs.impact \o "\n\n"
    \o HeaderResponse \o "\n" \o secs.response \o "\n\n"
    \o HeaderAftermath \o "\n" \o secs.aftermath

TitleSlice == 200

\* line 127
TitlePrompt(t, dtype) ==
    "Create a concise, professional title for this " \o dtype
    \o " disaster report: " \o Take(t, TitleSlice)

\* line 129: title.strip().rstrip('.')
CleanTitle(s) == RStripDots(Strip(s))

\* lines 140-141
CleanIntroduction(s) ==
    IF StartsWith(Lower(s), "a powerful")
    THEN ReplaceFirst(s, "A powerful", "The disaster")
    ELSE s

\* SectionPlan with the impact section generated before the details section
SectionPlanImpactFirst == <<
    [key |-> "introduction", max_length |-> 80, min_length |-> 30,
     lead |-> "Question: What type of disaster, when did it occur, and where? Answer ONLY these three questions in 2-3 sentences. Do not describe how it happened or its impact. Text: "],
    [key |-> "impact", max_length |-> 100, min_length |-> 40,
     lead |-> "Question: What are the human casualties, injuries, deaths, displaced people, and damage to buildings and infrastructure? Extract ONLY numbers and damage facts. Use 'according to reports' or 'preliminary estimates'. If no numbers, say 'assessment ongoing'. Do NOT describe the disaster event. Text: "],
    [key |-> "details", max_length |-> 100, min_length |-> 40,
     lead |-> "Question: How did this disaster develop and progress? Describe the sequence, intensity changes, weather conditions, and physical processes. Do NOT mention what/when/where or casualties. Text: "],
    [key |-> "response", max_length |-> 80, min_length |-> 30,
     lead |-> "Question: What rescue operations, emergency services, government actions, relief efforts, and aid were deployed? Extract ONLY response actions. Do NOT describe the disaster or impact. Text: "],
    [key |-> "aftermath", max_length |-> 80, min_length |-> 30,
     lead |-> "Question: What are the ongoing risks, recovery challenges, and lessons about preparedness or early warning systems? Focus on future implications. If not mentioned, briefly note recovery will be challenging. Do NOT repeat disaster or response details. Text: "] >>

\* the five section generations, in the order of lines 135-166
SectionPlan == <<
    [key |-> "introduction", max_length |-> 80, min_length |-> 30,
     lead |-> "Question: What type of disaster, when did it occur, and where? Answer ONLY these three questions in 2-3 sentences. Do not describe how it happened or its impact. Text: "],
    [key |-> "details", max_length |-> 100, min_length |-> 40,
     lead |-> "Question: How did this disaster develop and progress? Describe the sequence, intensity changes, weather conditions, and physical processes. Do NOT mention what/when/where or casualties. Text: "],
    [key |-> "impact", max_length |-> 100, min_length |-> 40,
     lead |-> "Question: What are the human casualties, injuries, deaths, displaced people, and damage to buildings and infrastructure? Extract ONLY numbers and damage facts. Use 'according to reports' or 'preliminary estimates'. If no numbers, say 'assessment ongoing'. Do NOT describe the disaster event. Text: "],
    [key |-> "response", max_length |-> 80, min_length |-> 30,
     lead |-> "Question: What rescue operations, emergency services, government actions, relief efforts, and aid were deployed? Extract ONLY response actions. Do NOT describe the disaster or impact. Text: "],
    [key |-> "aftermath", max_length |-> 80, min_length |-> 30,
     lead |-> "Question: What are the ongoing risks, recovery challenges, and lessons about preparedness or early warning systems? Focus on future implications. If not mentioned, briefly note recovery will be challenging. Do NOT repeat disaster or response details. Text: "] >>

SectionPrompt(i, t) == SectionPlan[i].lead \o t

TitleMaxLength == 15

TitleMinLength == 5

\* PassPlan with the alert pass allowed 200 tokens
PassPlanWideAlert == <<
    [slot |-> "alert", audience_role |-> GENERAL_PUBLIC, abstraction_level |-> "high",
     max_length |-> 200, min_length |-> 8],
    [slot |-> "short", audience_role |-> EMERGENCY_RESPONDERS, abstraction_level |-> "medium",
     max_length |-> 60, min_length |-> 25],
    [slot |-> "detailed", audience_role |-> AUTHORITIES, abstraction_level |-> "low",
     max_length |-> 150, min_length |-> 60] >>

\* PassPlan with the operational pass run before the alert pass
PassPlanShortFirst == <<
    [slot |-> "short", audience_role |-> EMERGENCY_RESPONDERS, abstraction_level |-> "medium",
     max_length |-> 60, min_length |-> 25],
    [slot |-> "alert", audience_role |-> GENERAL_PUBLIC, abstraction_level |-> "high",
     max_length |-> 20, min_length |-> 8],
    [slot |-> "detailed", audience_role |-> AUTHORITIES, abstraction_level |-> "low",
     max_length |-> 150, min_length |-> 60] >>

\* the three passes of generate_all_summaries, lines 215-249
PassPlan == <<
    [slot |-> "alert", audience_role |-> GENERAL_PUBLIC, abstraction_level |-> "high",
     max_length |-> 20, min_length |-> 8],
    [slot |-> "short", audience_role |-> EMERGENCY_RESPONDERS, abstraction_level |-> "medium",
     max_length |-> 60, min_length |-> 25],
    [slot |-> "detailed", audience_role |-> AUTHORITIES, abstraction_level |-> "low",
     max_length |-> 150, min_length |-> 60] >>

\* do_sample defaulting to True
SamplingOn == TRUE

\* generate_summary's default for do_sample (line 81); no caller overrides it
DefaultDoSample == FALSE

-----------------------------------------------------------------------------
(* State machine *)

\* generate_summary's defaults (lines 79-83)
DefaultArgs ==
    [max_length |-> 100, min_length |-> 30, do_sample |-> DefaultDoSample,
     audience_role |-> None, abstraction_level |-> None]

RoleArgs == {None, GENERAL_PUBLIC, EMERGENCY_RESPONDERS, AUTHORITIES, "media"}

LevelArgs == {None, "high", "medium", "low", "extreme"}

ArgsPool ==
    {[max_length |-> b[1], min_length |-> b[2], do_sample |-> s,
      audience_role |-> r, abstraction_level |-> l] :
        b \in {<<100, 30>>, <<20, 8>>}, s \in BOOLEAN, r \in RoleArgs, l \in LevelArgs}

\* the engine outcomes a run of operation o draws from
Universe(o) ==
    IF o = "summary" THEN AllOutcomes
    ELSE IF o = "triple" THEN Outcomes(NumOutcomesTriple)
    ELSE IF o = "report" THEN Outcomes(NumOutcomesReport)
    ELSE Outcomes(NumOutcomesFull)

\* the length of a summary in the units of max_length / min_length: its words
LengthUnits(s) ==
    Cardinality({i \in 1..Len(s) :
                    ~IsSpace(Char(s, i)) /\ (i = 1 \/ IsSpace(Char(s, i - 1)))})

\* summaries of 9, 12, 16, 20, 25, 42, 51, 60, 103 and 150 words
SummaryPool == <<
    "Catastrophic earthquake devastates northern metropolitan neighbourhoods overnight, officials confirmed.",
    Times("Flood alert. ", 6),
    Times("Stay away from the river. ", 3) \o "Go.",
    Times("Leave the low areas now. ", 4),
    Times("5 dead in a city. ", 5),
    Times("Roads north of the bridge are closed. ", 5) \o "Use the ring road to go south.",
    Times("Crews are clearing the main road today. ", 7) \o "Boats help.",
    Times("No power in 3 of 9 wards. ", 8) \o "Aid is due soon.",
    Times("Fifty people were injured and five are confirmed dead. ", 11) \o "Hospitals are on alert.",
    Times("The government activated the emergency response protocol and coordinates rescue. ", 15) >>

\* number of summaries of SummaryPool a well-behaved engine chooses from
NumSummaries == 10

\* what an engine that respects the bounds of a request can answer to it
WellBehaved(maxl, minl) ==
    {Ok(SummaryPool[i]) : i \in {j \in 1..Min(NumSummaries, Len(SummaryPool)) :
                                    LengthUnits(Strip(SummaryPool[j])) \in minl..maxl}}

\* the engine outcomes a pass of operation o with these bounds draws from
PassUniverse(o, maxl, minl) ==
    IF o = "bounded" THEN WellBehaved(maxl, minl) ELSE Universe(o)

Put(d, k, v) == (k :> v) @@ d

\* the script runs of the page that may be in progress at once in a host that
\* does not serialize them
Callers == {1, 2}

\* None where the code expects an object
NoneObject == << >>

\* a script run that has not reached the button handler (src/app.py line 137):
\* pc is its position, config its local current_config, fast_mode the checkbox,
\* observed what it read from st.session_state when it generated, runs the number
\* of times the button was pressed for it
IdleCaller ==
    [pc |-> "idle", config |-> NoneObject, fast_mode |-> FALSE, observed |-> NoneObject,
     runs |-> 0]

\* the audio files present before any operation runs
InitialFiles == {"report.wav"}

\* self.model.transcribe has not been called
NotCalled == [kind |-> "not_called"]

Init ==
    /\ op = "none"
    /\ pc = "idle"
    /\ text = ""
    /\ args = DefaultArgs
    /\ adapterLog = << >>
    /\ engineLog = << >>
    /\ memo = << >>
    /\ triple = << >>
    /\ title = ""
    /\ sections = << >>
    /\ report = ""
    /\ result = << >>
    /\ raised = "none"
    /\ prev = << >>
    /\ today = "November 03, 2026"
    /\ current_date = ""
    /\ disaster_type = ""
    /\ session_state = << >>
    /\ built = 0
    /\ callers = [c \in Callers |-> IdleCaller]
    /\ files = InitialFiles
    /\ audio_path = None
    /\ tmp_path = None
    /\ transcript = ""
    /\ backend = NotCalled
    /\ errorMsg = ""

\* a caller invokes summarizer.generate_summary(text, **args) directly
CallSummary ==
    /\ op = "none"
    /\ \E t \in AllTexts, a \in ArgsPool :
         \E out \in SummaryAnswers(t, a.max_length, a.min_length, a.do_sample,
                                   a.audience_role, a.abstraction_level,
                                   Universe("summary"), memo) :
            LET r == GenerateSummary(t, a.max_length, a.min_length, a.do_sample,
                                     a.audience_role, a.abstraction_level, out)
            IN /\ op' = "summary"
               /\ pc' = "done"
               /\ text' = t
               /\ args' = a
               /\ adapterLog' = <<AdapterCall(t, a.max_length, a.min_length, a.do_sample,
                                              a.audience_role, a.abstraction_level, r)>>
               /\ engineLog' = r.calls
               /\ memo' = SummaryMemo(memo, r)
               /\ raised' = r.raised
               /\ result' = IF r.raised = "none" THEN <<r.ret>> ELSE << >>
    /\ UNCHANGED <<triple, prev, today, hostVars, reportVars>>

\* a caller invokes summarizer.generate_all_summaries(text)
CallTriple ==
    /\ op = "none"
    /\ \E t \in Texts : text' = t
    /\ op' = "triple"
    /\ pc' = "pass1"
    /\ UNCHANGED <<args, adapterLog, engineLog, memo, triple, result, raised, prev,
                   today, hostVars, reportVars>>

\* a caller invokes generate_all_summaries(text) on a summarizer whose engine
\* respects the length bounds it is given
CallTripleBounded ==
    /\ op = "none"
    /\ \E t \in Texts : text' = t
    /\ op' = "bounded"
    /\ pc' = "pass1"
    /\ UNCHANGED <<args, adapterLog, engineLog, memo, triple, result, raised, prev,
                   today, hostVars, reportVars>>

\* a caller invokes report_generator.generate_structured_report(text)
CallReport ==
    /\ op = "none"
    /\ \E t \in Texts : text' = t
    /\ op' = "report"
    /\ pc' = "enter"
    /\ UNCHANGED <<args, adapterLog, engineLog, memo, triple, result, raised, prev,
                   today, hostVars, reportVars>>

\* a caller invokes report_generator.generate_all_summaries_with_structured_report(text);
\* its first statement (line 316) calls generate_all_summaries
CallFull ==
    /\ op = "none"
    /\ \E t \in Texts : text' = t
    /\ op' = "full"
    /\ pc' = "pass1"
    /\ UNCHANGED <<args, adapterLog, engineLog, memo, triple, result, raised, prev,
                   today, hostVars, reportVars>>

\* where generate_all_summaries goes after its i-th pass
AfterPass(i) ==
    IF i = 1 THEN "pass2"
    ELSE IF i = 2 THEN "pass3"
    ELSE IF op = "full" THEN "enter"
    ELSE IF op \in {"audio_file", "audio_bytes"} THEN "audio_return"
    ELSE "done"

\* where an exception leaving the operation goes: process_audio_bytes has a
\* finally clause (pipeline.py lines 113-116)
AfterRaise == IF op = "audio_bytes" THEN "cleanup" ELSE "done"

\* the i-th pass of generate_all_summaries: one generate_summary call and the
\* assignment of its slot; the third pass is followed by the return (line 253)
Pass(i) ==
    LET p == PassPlan[i]
    IN /\ op \in {"triple", "bounded", "full", "audio_file", "audio_bytes"}
       /\ pc = "pass" \o ToString(i)
       /\ \E out \in SummaryAnswers(text, p.max_length, p.min_length, DefaultDoSample,
                                    p.audience_role, p.abstraction_level,
                                    PassUniverse(op, p.max_length, p.min_length), memo) :
            LET r == GenerateSummary(text, p.max_length, p.min_length, DefaultDoSample,
                                     p.audience_role, p.abstraction_level, out)
                filled == Put(triple, p.slot, r.ret)
            IN /\ adapterLog' = Append(adapterLog,
                                       AdapterCall(text, p.max_length, p.min_length,
                                                   DefaultDoSample, p.audience_role,
                                                   p.abstraction_level, r))
               /\ engineLog' = engineLog \o r.calls
               /\ memo' = SummaryMemo(memo, r)
               /\ raised' = r.raised
               /\ IF r.raised # "none"
                  THEN /\ pc' = AfterRaise
                       /\ UNCHANGED <<triple, result>>
                  ELSE /\ triple' = filled
                       /\ pc' = AfterPass(i)
                       /\ result' = IF i = 3 /\ op \in {"triple", "bounded"}
                                    THEN <<filled.alert, filled.short, filled.detailed>>
                                    ELSE result
       /\ UNCHANGED <<op, text, args, prev, today, hostVars, reportVars>>

PassAlert == Pass(1)

PassShort == Pass(2)

PassDetailed == Pass(3)

\* the caller invokes generate_all_summaries again, same summarizer, same text
Repeat ==
    /\ op = "triple"
    /\ pc = "done"
    /\ raised = "none"
    /\ Len(prev) = 0
    /\ prev' = <<[adapterLog |-> adapterLog, engineLog |-> engineLog, result |-> result]>>
    /\ adapterLog' = << >>
    /\ engineLog' = << >>
    /\ triple' = << >>
    /\ result' = << >>
    /\ pc' = "pass1"
    /\ UNCHANGED <<op, text, args, memo, raised, today, hostVars, reportVars>>

\* generate_structured_report, lines 118-123
EnterReport ==
    /\ op \in {"report", "full"}
    /\ pc = "enter"
    /\ current_date' = today
    /\ disaster_type' = DetectDisasterType(text)
    /\ pc' = "title"
    /\ UNCHANGED <<op, text, args, adapterLog, engineLog, memo, triple, title,
                   sections, report, result, raised, prev, today, hostVars>>

\* one generate_summary call of generate_structured_report and what follows it:
\* the call has no audience role and no abstraction level
ReportCall(prompt, maxl, minl, out) ==
    GenerateSummary(prompt, maxl, minl, DefaultDoSample, None, None, out)

ReportAnswers(prompt, maxl, minl) ==
    SummaryAnswers(prompt, maxl, minl, DefaultDoSample, None, None, Universe(op), memo)

Logged(prompt, maxl, minl, r) ==
    /\ adapterLog' = Append(adapterLog,
                            AdapterCall(prompt, maxl, minl, DefaultDoSample, None, None, r))
    /\ engineLog' = engineLog \o r.calls
    /\ memo' = SummaryMemo(memo, r)
    /\ raised' = r.raised

\* a headline the engine can answer the title request with
HeadlineOutcomes == {Ok("Earthquake Strikes Northern Region!")}

\* the engine outcomes the title call can meet
TitleAnswers(prompt) ==
    SummaryAnswers(prompt, TitleMaxLength, TitleMinLength, DefaultDoSample, None, None,
                   Universe(op) \cup HeadlineOutcomes, memo)

\* lines 125-130
GenerateTitle ==
    /\ op \in {"report", "full"}
    /\ pc = "title"
    /\ LET prompt == TitlePrompt(text, disaster_type)
       IN \E out \in TitleAnswers(prompt) :
            LET r == ReportCall(prompt, TitleMaxLength, TitleMinLength, out)
            IN /\ Logged(prompt, TitleMaxLength, TitleMinLength, r)
               /\ IF r.raised # "none"
                  THEN pc' = "done" /\ UNCHANGED title
                  ELSE pc' = "introduction" /\ title' = CleanTitle(r.ret)
    /\ UNCHANGED <<op, text, args, triple, sections, report, result, prev, today, hostVars,
                   current_date, disaster_type>>

\* what is stored under the i-th section's key
StoredSection(i, ret) == IF i = 1 THEN CleanIntroduction(ret) ELSE ret

AfterSection(i) == IF i = Len(SectionPlan) THEN "diversity" ELSE SectionPlan[i + 1].key

\* the i-th of the five section generations (lines 135-166)
GenerateSection(i) ==
    LET sp == SectionPlan[i]
        prompt == SectionPrompt(i, text)
    IN /\ op \in {"report", "full"}
       /\ pc = sp.key
       /\ \E out \in ReportAnswers(prompt, sp.max_length, sp.min_length) :
            LET r == ReportCall(prompt, sp.max_length, sp.min_length, out)
            IN /\ Logged(prompt, sp.max_length, sp.min_length, r)
               /\ IF r.raised # "none"
                  THEN pc' = "done" /\ UNCHANGED sections
                  ELSE /\ pc' = AfterSection(i)
                       /\ sections' = Put(sections, sp.key, StoredSection(i, r.ret))
       /\ UNCHANGED <<op, text, args, triple, title, report, result, prev, today, hostVars,
                      current_date, disaster_type>>

GenerateIntroduction == GenerateSection(1)

GenerateDetails == GenerateSection(2)

GenerateImpact == GenerateSection(3)

GenerateResponse == GenerateSection(4)

GenerateAftermath == GenerateSection(5)

\* line 169
DiversityCheck ==
    /\ op \in {"report", "full"}
    /\ pc = "diversity"
    /\ sections' = EnsureSectionDiversity(sections)
    /\ pc' = "assemble"
    /\ UNCHANGED <<op, text, args, adapterLog, engineLog, memo, triple, title, report,
                   result, raised, prev, today, hostVars, current_date, disaster_type>>

\* lines 172-189
Assemble ==
    /\ op \in {"report", "full"}
    /\ pc = "assemble"
    /\ report' = AssembleDocument(title, current_date, sections)
    /\ pc' = "return"
    /\ UNCHANGED <<op, text, args, adapterLog, engineLog, memo, triple, title, sections,
                   result, raised, prev, today, hostVars, current_date, disaster_type>>

\* line 193, and for the combined operation line 324
ReturnReport ==
    /\ op \in {"report", "full"}
    /\ pc = "return"
    /\ result' = IF op = "full" THEN <<triple.alert, triple.short, report>> ELSE <<report>>
    /\ pc' = "done"
    /\ UNCHANGED <<op, text, args, adapterLog, engineLog, memo, triple, raised, prev,
                   today, hostVars, reportVars>>

Next ==
    \/ CallSummary
    \/ CallTriple
    \/ CallReport
    \/ CallFull
    \/ PassAlert
    \/ PassShort
    \/ PassDetailed
    \/ Repeat
    \/ EnterReport
    \/ GenerateTitle
    \/ GenerateIntroduction
    \/ GenerateDetails
    \/ GenerateImpact
    \/ GenerateResponse
    \/ GenerateAftermath
    \/ DiversityCheck
    \/ Assemble
    \/ ReturnReport

Spec == Init /\ [][Next]_vars

\* the values datetime.now().strftime("%B %d, %Y") takes as time passes
Dates == <<"November 03, 2026", "November 04, 2026">>

\* midnight passes
Tick ==
    /\ \E i \in 1..(Len(Dates) - 1) : today = Dates[i] /\ today' = Dates[i + 1]
    /\ UNCHANGED <<op, pc, text, args, adapterLog, engineLog, memo, triple, result,
                   raised, prev, reportVars, hostVars>>

\* generate_structured_report while the clock runs
NextClock ==
    \/ CallReport
    \/ EnterReport
    \/ GenerateTitle
    \/ GenerateIntroduction
    \/ GenerateDetails
    \/ GenerateImpact
    \/ GenerateResponse
    \/ GenerateAftermath
    \/ DiversityCheck
    \/ Assemble
    \/ ReturnReport
    \/ Tick

SpecClock == Init /\ [][NextClock]_vars

-----------------------------------------------------------------------------
(* _post_process_report applied to bounded reports, and to its own output *)

LinePool == <<
    "TITLE",
    "Roads are closed.",
    "  Shelters opened at noon.",
    "",
    "Introduction:",
    "The impact was severe.",
    Times("Impact on roads. ", 6),
    HeaderTitle,
    "Lessons",
    "Earthquake Strikes Northern Region" >>

\* number of lines of LinePool the reports are built from
NumLines == 7

\* most lines of one report
MaxReportLines == 3

ReportLines == {LinePool[i] : i \in 1..Min(NumLines, Len(LinePool))}

ReportLineSeqs == UNION {[1..n -> ReportLines] : n \in 1..MaxReportLines}

\* a caller invokes report_generator._post_process_report(report)
CallPostProcess ==
    /\ op = "none"
    /\ \E lines \in ReportLineSeqs :
         /\ text' = JoinLines(lines)
         /\ result' = <<PostProcessReport(JoinLines(lines), today)>>
    /\ op' = "post_process"
    /\ pc' = "returned"
    /\ UNCHANGED <<args, adapterLog, engineLog, memo, triple, raised, prev, today,
                   hostVars, reportVars>>

\* the caller hands the returned report to _post_process_report again
PostProcessAgain ==
    /\ op = "post_process"
    /\ pc = "returned"
    /\ prev' = <<[text |-> text, result |-> result]>>
    /\ text' = result[1]
    /\ result' = <<PostProcessReport(result[1], today)>>
    /\ pc' = "done"
    /\ UNCHANGED <<op, args, adapterLog, engineLog, memo, triple, raised, today,
                   hostVars, reportVars>>

NextPostProcess == CallPostProcess \/ PostProcessAgain

SpecPostProcess == Init /\ [][NextPostProcess]_vars

\* generate_all_summaries with an engine that respects the length bounds
NextBounded ==
    \/ CallTripleBounded
    \/ PassAlert
    \/ PassShort
    \/ PassDetailed

SpecBounded == Init /\ [][NextBounded]_vars

-----------------------------------------------------------------------------
(* _detect_disaster_type applied to bounded texts *)

DetectWordPool == <<
    "Earthquake", "flooding", "water shortage", "STORM", "Fire", "tsunami", "dry",
    "rain", "seismic", "Flood", "tidal wave", "drought", "tremor", "richter",
    "inundation", "water", "cyclone", "hurricane", "typhoon", "wildfire", "blaze",
    "burning", "landslide" >>

\* number of words of DetectWordPool the texts are built from
NumDetectWords == 12

\* number of words in a text
MaxWords == 2

DetectWords == {DetectWordPool[i] : i \in 1..Min(NumDetectWords, Len(DetectWordPool))}

RECURSIVE TextsOfWords(_)
TextsOfWords(n) ==
    IF n = 0 THEN {""}
    ELSE LET shorter == TextsOfWords(n - 1)
         IN shorter \cup {IF t = "" THEN w ELSE t \o " " \o w : t \in shorter, w \in DetectWords}

DetectTexts == TextsOfWords(MaxWords)

\* a caller invokes report_generator._detect_disaster_type(text)
CallDetect ==
    /\ op = "none"
    /\ \E t \in DetectTexts :
         /\ text' = t
         /\ result' = <<DetectDisasterType(t)>>
    /\ op' = "detect"
    /\ pc' = "done"
    /\ UNCHANGED <<args, adapterLog, engineLog, memo, triple, raised, prev, today, hostVars,
                   reportVars>>

NextDetect == CallDetect

SpecDetect == Init /\ [][NextDetect]_vars

-----------------------------------------------------------------------------
(* _ensure_section_diversity applied to bounded section dicts *)

SectionPool == <<
    "A powerful earthquake struck the northern region early on Monday morning.",
    "Heavy showers flooded the valley and the river burst its banks overnight.",
    "Flood in the town.",
    "A powerful earthquake struck the northern region early on Monday; 50 people were injured.",
    "The disaster destroyed the harbour road and evacuated families wait for shelter.",
    "Floods damaged the bridge and 50 people were injured.",
    "The disaster progressed as follows: A powerful earthquake destroyed the old bridge.",
    "",
    "The flood developed quickly after the dam gates were opened on Sunday." >>

\* number of bodies of SectionPool the section dicts are built from
NumSectionBodies == 7

SectionBodies == {SectionPool[i] : i \in 1..Min(NumSectionBodies, Len(SectionPool))}

SectionsOf(i, d, m) ==
    [introduction |-> i, details |-> d, impact |-> m,
     response |-> "Rescue teams were deployed.", aftermath |-> "Repairs are planned."]

\* a caller invokes report_generator._ensure_section_diversity(sections); args keeps
\* the dict as it was passed, sections the dict as it is returned
CallDiversity ==
    /\ op = "none"
    /\ \E i \in SectionBodies, d \in SectionBodies, m \in SectionBodies :
         /\ args' = SectionsOf(i, d, m)
         /\ sections' = EnsureSectionDiversity(SectionsOf(i, d, m))
    /\ op' = "diversity"
    /\ pc' = "done"
    /\ UNCHANGED <<text, adapterLog, engineLog, memo, triple, title, report, result,
                   raised, prev, today, hostVars, current_date, disaster_type>>

NextDiversity == CallDiversity

SpecDiversity == Init /\ [][NextDiversity]_vars

-----------------------------------------------------------------------------
(* Speech to text and the audio pipeline (speech_to_text.py, pipeline.py) *)

\* What one call self.model.transcribe(...) can do: return {"text": s}, or raise
\* an exception of some type with some message; cause names what went wrong in
\* the environment.
Returns(s) == [kind |-> "return", text |-> s]

Fails(type, msg, cause) == [kind |-> "raise", type |-> type, msg |-> msg, cause |-> cause]

BackendPool == <<
    Returns(" Flood water entered homes. "),
    Fails("FileNotFoundError", "[Errno 2] No such file or directory: 'ffmpeg'",
          "ffmpeg_missing"),
    Fails("RuntimeError",
          "Failed to load audio: ffmpeg version 6.0 Copyright (c) 2000-2023 the FFmpeg developers\nreport.wav: Invalid data found when processing input\n",
          "undecodable_audio"),
    Returns(""),
    Fails("RuntimeError", "CUDA out of memory.", "model_failure"),
    Fails("FileNotFoundError", "[WinError 2] The system cannot find the file specified",
          "ffmpeg_missing"),
    Returns(" \n"),
    Fails("FileNotFoundError",
          "[Errno 2] No such file or directory: 'assets/mel_filters.npz'",
          "asset_missing"),
    Returns("A 7.2 magnitude earthquake struck at 3:45 AM; 50 injured, 5 dead."),
    Fails("KeyError", "'text'", "malformed_result") >>

BackendOutcomes == {BackendPool[i] : i \in 1..Len(BackendPool)}

\* the paths a caller passes
AudioPaths == {"report.wav", "missing.wav"}

\* tmp_file.name (pipeline.py line 110)
TempName == "/tmp/tmpk3v9x2.wav"

FFmpegGuidance ==
    "FFmpeg is not installed or not in PATH. Please install FFmpeg:\n- Windows: Download from https://ffmpeg.org/download.html or use 'choco install ffmpeg'\n- Linux: 'sudo apt-get install ffmpeg'\n- macOS: 'brew install ffmpeg'"

Returned(s) == [ret |-> s, raised |-> "none", msg |-> ""]

Raised(type, msg) == [ret |-> "", raised |-> type, msg |-> msg]

\* the handler of lines 61-75
OnFileNotFoundError(msg) ==
    IF Contains(Lower(msg), "ffmpeg")
       \/ Contains(msg, "The system cannot find the file specified")
    THEN Raised("FileNotFoundError", FFmpegGuidance)
    ELSE Raised("FileNotFoundError", msg)

\* the handler of lines 76-88
OnOtherException(type, msg) ==
    IF Contains(Lower(msg), "ffmpeg") \/ Contains(Lower(msg), "cannot find the file")
    THEN Raised("FileNotFoundError", FFmpegGuidance)
    ELSE Raised(type, msg)

\* transcribe_audio (speech_to_text.py lines 32-88) with the file system as it is
\* and the backend doing `outcome`
TranscribeAudio(path, fs, outcome) ==
    IF path \notin fs
    THEN Raised("FileNotFoundError", "Audio file not found: " \o path)
    ELSE IF outcome.kind = "return" THEN Returned(Strip(outcome.text))
    ELSE IF outcome.type = "FileNotFoundError" THEN OnFileNotFoundError(outcome.msg)
    ELSE OnOtherException(outcome.type, outcome.msg)

\* what the backend is seen to do: nothing when the path does not exist
BackendSeen(path, fs, outcome) == IF path \in fs THEN outcome ELSE NotCalled

\* a caller invokes stt.transcribe_audio(audio_path)
CallTranscribe ==
    /\ op = "none"
    /\ \E path \in AudioPaths, outcome \in BackendOutcomes :
         LET r == TranscribeAudio(path, files, outcome)
         IN /\ audio_path' = path
            /\ backend' = BackendSeen(path, files, outcome)
            /\ raised' = r.raised
            /\ errorMsg' = r.msg
            /\ result' = IF r.raised = "none" THEN <<r.ret>> ELSE << >>
    /\ op' = "transcribe"
    /\ pc' = "done"
    /\ UNCHANGED <<text, args, adapterLog, engineLog, memo, triple, prev, today,
                   reportVars, sessionVars, files, tmp_path, transcript>>

\* a caller invokes pipeline.process_audio_file(audio_path)
CallAudioFile ==
    /\ op = "none"
    /\ \E path \in AudioPaths : audio_path' = path
    /\ op' = "audio_file"
    /\ pc' = "transcribe"
    /\ UNCHANGED <<text, args, adapterLog, engineLog, memo, triple, result, raised,
                   prev, today, reportVars, sessionVars, files, tmp_path, transcript,
                   backend, errorMsg>>

\* what tmp_file.write(audio_bytes) can do (line 108): return, or raise when the
\* device has no space left
TempWriteOutcomes ==
    {[kind |-> "ok"],
     [kind |-> "raise", type |-> "OSError", msg |-> "[Errno 28] No space left on device"]}

\* a caller invokes pipeline.process_audio_bytes(audio_bytes): lines 107-112, the
\* temporary file is created (delete=False) and written outside the try statement
\* of line 111, and its name is handed to process_audio_file
CallAudioBytes ==
    /\ op = "none"
    /\ files' = files \cup {TempName}
    /\ op' = "audio_bytes"
    /\ \E w \in TempWriteOutcomes :
         IF w.kind = "ok"
         THEN /\ tmp_path' = TempName
              /\ audio_path' = TempName
              /\ pc' = "transcribe"
              /\ UNCHANGED <<raised, errorMsg>>
         ELSE /\ raised' = w.type
              /\ errorMsg' = w.msg
              /\ pc' = "done"
              /\ UNCHANGED <<tmp_path, audio_path>>
    /\ UNCHANGED <<text, args, adapterLog, engineLog, memo, triple, result,
                   prev, today, reportVars, sessionVars, transcript, backend>>

\* process_audio_file, lines 72-75: the transcription and the test of its result
TranscribeStep ==
    /\ op \in {"audio_file", "audio_bytes"}
    /\ pc = "transcribe"
    /\ \E outcome \in BackendOutcomes :
         LET r == TranscribeAudio(audio_path, files, outcome)
         IN /\ backend' = BackendSeen(audio_path, files, outcome)
            /\ IF r.raised # "none"
               THEN /\ raised' = r.raised
                    /\ errorMsg' = r.msg
                    /\ pc' = AfterRaise
                    /\ UNCHANGED <<transcript, text>>
               ELSE IF IsBlank(r.ret)
               THEN /\ raised' = "ValueError"
                    /\ errorMsg' = "No text was transcribed from the audio file."
                    /\ pc' = AfterRaise
                    /\ transcript' = r.ret
                    /\ UNCHANGED text
               ELSE /\ transcript' = r.ret
                    /\ text' = r.ret
                    /\ pc' = "pass1"
                    /\ UNCHANGED <<raised, errorMsg>>
    /\ UNCHANGED <<op, args, adapterLog, engineLog, memo, triple, result, prev, today,
                   reportVars, sessionVars, files, audio_path, tmp_path>>

\* process_audio_file, line 85
ReturnAudio ==
    /\ op \in {"audio_file", "audio_bytes"}
    /\ pc = "audio_return"
    /\ result' = <<transcript, triple.alert, triple.short, triple.detailed>>
    /\ pc' = IF op = "audio_bytes" THEN "cleanup" ELSE "done"
    /\ UNCHANGED <<op, text, args, adapterLog, engineLog, memo, triple, raised, prev,
                   today, reportVars, hostVars>>

\* process_audio_bytes, lines 113-116: the finally clause
Cleanup ==
    /\ op = "audio_bytes"
    /\ pc = "cleanup"
    /\ files' = IF tmp_path \in files THEN files \ {tmp_path} ELSE files
    /\ pc' = "done"
    /\ UNCHANGED <<op, text, args, adapterLog, engineLog, memo, triple, result, raised,
                   prev, today, reportVars, sessionVars, audio_path, tmp_path,
                   transcript, backend, errorMsg>>

NextAudio ==
    \/ CallTranscribe
    \/ CallAudioFile
    \/ CallAudioBytes
    \/ TranscribeStep
    \/ PassAlert
    \/ PassShort
    \/ PassDetailed
    \/ ReturnAudio
    \/ Cleanup

SpecAudio == Init /\ [][NextAudio]_vars

-----------------------------------------------------------------------------
(* The page's cached summarizer (src/app.py lines 139-166) *)

\* the configurations the sidebar can produce (src/app.py lines 71-90)
ConfigPool == <<
    [model_name |-> "facebook/bart-base", use_t5 |-> FALSE],
    [model_name |-> "t5-base", use_t5 |-> TRUE],
    [model_name |-> "facebook/bart-large-cnn", use_t5 |-> FALSE],
    [model_name |-> "t5-large", use_t5 |-> TRUE] >>

PageConfigs == {ConfigPool[i] : i \in 1..Len(ConfigPool)}

\* what the module-level generate_all_summaries can be given besides
FunctionConfigs ==
    PageConfigs \cup {[model_name |-> "facebook/bart-large-cnn", use_t5 |-> TRUE]}

\* number of times the button is pressed for one script run
MaxRuns == 3

\* number of DisasterSummarizer constructions in one behaviour
MaxBuilds == 4

\* the model DisasterSummarizer.__init__ loads (summarizer.py lines 51-52)
LoadedModel(config) ==
    IF config.use_t5 /\ ~Contains(Lower(config.model_name), "t5")
    THEN "t5-base"
    ELSE config.model_name

\* DisasterSummarizer(**config), the n-th object constructed; config records the
\* arguments it was constructed with
NewSummarizer(config, n) ==
    [id |-> n, model_name |-> LoadedModel(config), config |-> config]

\* StructuredReportGenerator(summarizer)
NewReportGenerator(summarizer) == [summarizer |-> summarizer]

\* a rebuild on every request
NeedsRebuildAlways(ss, config) == TRUE

\* the condition of src/app.py lines 146-151
NeedsRebuild(ss, config) ==
    \/ "summarizer" \notin DOMAIN ss
    \/ "summarizer_config" \notin DOMAIN ss
    \/ ss.summarizer = NoneObject
    \/ ss.summarizer_config # config

\* what a script run reads from st.session_state when it generates (lines
\* 160-166): the summarizer in fast mode, the report generator otherwise
Observe(ss, fast_mode) ==
    [summarizer |-> ss.summarizer, summarizer_config |-> ss.summarizer_config,
     report_generator |-> ss.report_generator,
     engine |-> IF fast_mode THEN ss.summarizer ELSE ss.report_generator.summarizer]

\* lines 152-155 with a report generator that is made only when none is cached
RebuiltKeepsGenerator(ss, config, n) ==
    LET s1 == Put(ss, "summarizer", NewSummarizer(config, n))
        s2 == Put(s1, "summarizer_config", config)
    IN IF "report_generator" \in DOMAIN ss THEN s2
       ELSE Put(s2, "report_generator", NewReportGenerator(s2.summarizer))

\* st.session_state after lines 152-155 with the n-th summarizer constructed
Rebuilt(ss, config, n) ==
    LET s1 == Put(ss, "summarizer", NewSummarizer(config, n))
        s2 == Put(s1, "summarizer_config", config)
    IN Put(s2, "report_generator", NewReportGenerator(s2.summarizer))

\* st.session_state after lines 146-157 when no construction is needed
Reused(ss) ==
    IF "report_generator" \notin DOMAIN ss
    THEN Put(ss, "report_generator", NewReportGenerator(ss.summarizer))
    ELSE ss

\* the button handler of the page as one step (src/app.py lines 139-227): the
\* summarizer is made to match the sidebar, then the summaries are generated with
\* it; loaded tells whether DisasterSummarizer.__init__ returns or raises, in which
\* case line 225 catches the exception.  The generation itself changes nothing in
\* st.session_state; its steps are those of PassAlert .. ReturnReport.
PageRequest ==
    /\ op \in {"none", "page", "function"}
    /\ callers[1].runs < MaxRuns
    /\ built < MaxBuilds
    /\ \E config \in PageConfigs, fast_mode \in BOOLEAN, loaded \in BOOLEAN :
         LET me == [callers[1] EXCEPT !.config = config, !.fast_mode = fast_mode,
                                       !.runs = @ + 1]
         IN IF NeedsRebuild(session_state, config)
            THEN /\ built' = built + 1
                 /\ IF loaded
                    THEN /\ session_state' = Rebuilt(session_state, config, built + 1)
                         /\ callers' = [callers EXCEPT ![1] =
                               [me EXCEPT !.pc = "done",
                                          !.observed = Observe(session_state', fast_mode)]]
                    ELSE /\ session_state' = session_state
                         /\ callers' = [callers EXCEPT ![1] =
                               [me EXCEPT !.pc = "failed", !.observed = NoneObject]]
            ELSE /\ built' = built
                 /\ session_state' = Reused(session_state)
                 /\ callers' = [callers EXCEPT ![1] =
                       [me EXCEPT !.pc = "done",
                                  !.observed = Observe(session_state', fast_mode)]]
    /\ op' = "page"
    /\ UNCHANGED <<pc, text, args, adapterLog, engineLog, memo, triple, result, raised,
                   prev, today, reportVars, audioVars>>

\* the module-level generate_all_summaries(text, model_name, use_t5)
\* (summarizer.py lines 257-274): it constructs a summarizer of its own, keeps it
\* in a local variable and caches nothing; args keeps the configuration it was given
FunctionRequest ==
    /\ op \in {"none", "page", "function"}
    /\ built < MaxBuilds
    /\ \E config \in FunctionConfigs : args' = config
    /\ built' = built + 1
    /\ op' = "function"
    /\ UNCHANGED <<pc, text, adapterLog, engineLog, memo, triple, result, raised, prev,
                   today, reportVars, session_state, callers, audioVars>>

NextSession == PageRequest \/ FunctionRequest

SpecSession == Init /\ [][NextSession]_vars

-----------------------------------------------------------------------------
(* The same handler run by two script runs at once, statement by statement, in *)
(* a host that shares st.session_state between them and does not serialize them *)

\* number of configurations of ConfigPool the concurrent script runs choose from
NumConfigs == 2

RaceConfigs == {ConfigPool[i] : i \in 1..Min(NumConfigs, Len(ConfigPool))}

InHandler(c) == callers[c].pc \notin {"idle", "done", "failed"}

At(c, position) == callers' = [callers EXCEPT ![c].pc = position]

\* the button is pressed for script run c (lines 137-144)
Click(c) ==
    /\ op \in {"none", "race"}
    /\ ~InHandler(c)
    /\ callers[c].runs < MaxRuns
    /\ built + Cardinality({d \in Callers : InHandler(d)}) < MaxBuilds
    /\ \E config \in RaceConfigs, fast_mode \in BOOLEAN :
         callers' = [callers EXCEPT ![c] =
                        [pc |-> "check", config |-> config, fast_mode |-> fast_mode,
                         observed |-> NoneObject, runs |-> callers[c].runs + 1]]
    /\ op' = "race"
    /\ UNCHANGED <<pc, text, args, adapterLog, engineLog, memo, triple, result, raised,
                   prev, today, reportVars, session_state, built, audioVars>>

\* lines 146-151 and 156: which branch script run c takes
Check(c) ==
    /\ callers[c].pc = "check"
    /\ IF NeedsRebuild(session_state, callers[c].config)
       THEN At(c, "construct")
       ELSE IF "report_generator" \notin DOMAIN session_state
       THEN At(c, "wrap_only")
       ELSE At(c, "generate")
    /\ UNCHANGED <<op, pc, text, args, adapterLog, engineLog, memo, triple, result,
                   raised, prev, today, reportVars, session_state, built, audioVars>>

\* line 152: the summarizer is constructed and assigned, or the constructor
\* raises and line 225 catches the exception
Construct(c) ==
    /\ callers[c].pc = "construct"
    /\ built' = built + 1
    /\ \E loaded \in BOOLEAN :
         IF loaded
         THEN /\ session_state' =
                    Put(session_state, "summarizer",
                        NewSummarizer(callers[c].config, built + 1))
              /\ At(c, "store_config")
         ELSE /\ session_state' = session_state
              /\ At(c, "failed")
    /\ UNCHANGED <<op, pc, text, args, adapterLog, engineLog, memo, triple, result,
                   raised, prev, today, reportVars, audioVars>>

\* line 153
StoreConfig(c) ==
    /\ callers[c].pc = "store_config"
    /\ session_state' = Put(session_state, "summarizer_config", callers[c].config)
    /\ At(c, "wrap")
    /\ UNCHANGED <<op, pc, text, args, adapterLog, engineLog, memo, triple, result,
                   raised, prev, today, reportVars, built, audioVars>>

\* line 155: the report generator is built around whatever summarizer
\* st.session_state holds at this moment
Wrap(c) ==
    /\ callers[c].pc = "wrap"
    /\ session_state' = Put(session_state, "report_generator",
                            NewReportGenerator(session_state.summarizer))
    /\ At(c, "generate")
    /\ UNCHANGED <<op, pc, text, args, adapterLog, engineLog, memo, triple, result,
                   raised, prev, today, reportVars, built, audioVars>>

\* line 157
WrapOnly(c) ==
    /\ callers[c].pc = "wrap_only"
    /\ session_state' = Put(session_state, "report_generator",
                            NewReportGenerator(session_state.summarizer))
    /\ At(c, "generate")
    /\ UNCHANGED <<op, pc, text, args, adapterLog, engineLog, memo, triple, result,
                   raised, prev, today, reportVars, built, audioVars>>

\* lines 160-166: script run c reads the summarizer or the report generator from
\* st.session_state and generates with it
Generate(c) ==
    /\ callers[c].pc = "generate"
    /\ callers' = [callers EXCEPT ![c].pc = "done",
                                  ![c].observed =
                                      Observe(session_state, callers[c].fast_mode)]
    /\ UNCHANGED <<op, pc, text, args, adapterLog, engineLog, memo, triple, result,
                   raised, prev, today, reportVars, session_state, built, audioVars>>

NextRace ==
    \E c \in Callers :
        \/ Click(c)
        \/ Check(c)
        \/ Construct(c)
        \/ StoreConfig(c)
        \/ Wrap(c)
        \/ WrapOnly(c)
        \/ Generate(c)

SpecRace == Init /\ [][NextRace]_vars

-----------------------------------------------------------------------------
(* Properties *)

\* the adapter call e reached the engine and the engine call failed
Failed(e) == Len(e.calls) = 1 /\ e.calls[1].out.kind # "ok"

\* str(e) of the exception a failed engine call ends in
FailureReason(out) ==
    IF out.kind = "raise" THEN out.payload ELSE MalformedReason(out.payload)

OnlyWhitespace(s) == \A i \in 1..Len(s) : Char(s, i) \in {" ", "\t", "\n", "\r", "\f"}

NoOuterWhitespace(s) ==
    Len(s) = 0 \/ (~IsSpace(Char(s, 1)) /\ ~IsSpace(Char(s, Len(s))))

Rets == [i \in 1..Len(adapterLog) |-> adapterLog[i].ret]

\* C1: generate_summary never propagates an engine failure: whenever the
\* engine call raises or its response cannot be read, the call returns
\* "Error generating summary: <reason>" with the failure reason, and no
\* exception leaves it.
C1_EngineFailureReturned ==
    /\ raised = "none"
    /\ \A i \in 1..Len(adapterLog) :
         Failed(adapterLog[i]) =>
            /\ adapterLog[i].raised = "none"
            /\ adapterLog[i].ret =
                 "Error generating summary: " \o FailureReason(adapterLog[i].calls[1].out)

C1_Witness ==
    /\ op = "summary"
    /\ pc = "done"
    /\ ~OnlyWhitespace(text)
    /\ Failed(adapterLog[1])
    /\ adapterLog[1].calls[1].out = Malformed("missing_key")
    /\ result = <<"Error generating summary: 'summary_text'">>

ProgressionClause == "The disaster progressed as follows: "

\* ret with a trailing run of white space and '.' removed gives ttl
TrimmedTail(ttl, ret) ==
    /\ StartsWith(ret, ttl)
    /\ \A i \in (Len(ttl) + 1)..Len(ret) : Char(ret, i) \in Whitespace \cup {"."}

\* all three passes, or all six generations, were attempted and the operation returned
C2_AllAttempted ==
    /\ raised = "none"
    /\ (op = "triple" /\ pc = "done") =>
          /\ Len(adapterLog) = 3
          /\ result = <<Rets[1], Rets[2], Rets[3]>>
    /\ (op = "report" /\ pc = "done") =>
          /\ Len(adapterLog) = 6
          /\ Len(engineLog) = 6
          /\ result = <<report>>
          /\ DOMAIN sections = {"introduction", "details", "impact", "response", "aftermath"}

\* C2 (as amended): a failed pass or section never aborts its siblings: all
\* three passes and all six section generations are attempted and the
\* operation returns normally; each failed slot of generate_all_summaries
\* holds the adapter's error string, and in the structured report a failed
\* introduction, impact, response or aftermath holds it unchanged, a failed
\* title holds it less a trailing run of white space and periods, and a
\* failed details section holds it either unchanged or, when its first 50
\* characters collide with the introduction's, behind the progression clause.
C2_FailedSiblingsDegrade ==
    /\ C2_AllAttempted
    /\ (op = "report" /\ pc = "done") =>
          /\ Failed(adapterLog[1]) => TrimmedTail(title, Rets[1])
          /\ Failed(adapterLog[2]) => sections.introduction = Rets[2]
          /\ Failed(adapterLog[3]) =>
                /\ sections.details \in {Rets[3], ProgressionClause \o Rets[3]}
                /\ SectionStart(sections.introduction) # SectionStart(Rets[3])
                      => sections.details = Rets[3]
          /\ Failed(adapterLog[4]) => sections.impact = Rets[4]
          /\ Failed(adapterLog[5]) => sections.response = Rets[5]
          /\ Failed(adapterLog[6]) => sections.aftermath = Rets[6]

\* C2 as stated: every failed slot holds the error string the adapter returned
C2_FailedSlotHoldsErrorString ==
    /\ C2_AllAttempted
    /\ (op = "report" /\ pc = "done") =>
          /\ Failed(adapterLog[1]) => title = Rets[1]
          /\ Failed(adapterLog[2]) => sections.introduction = Rets[2]
          /\ Failed(adapterLog[3]) => sections.details = Rets[3]
          /\ Failed(adapterLog[4]) => sections.impact = Rets[4]
          /\ Failed(adapterLog[5]) => sections.response = Rets[5]
          /\ Failed(adapterLog[6]) => sections.aftermath = Rets[6]

C2_Witness ==
    /\ op = "report"
    /\ pc = "done"
    /\ Len(adapterLog) = 6
    /\ Failed(adapterLog[1])
    /\ title # Rets[1]
    /\ Failed(adapterLog[2])
    /\ Failed(adapterLog[3])
    /\ sections.details = ProgressionClause \o Rets[3]
    /\ ~Failed(adapterLog[4])
    /\ Failed(adapterLog[5])
    /\ sections.response = Rets[5]

\* C3: for empty or white-space-only text generate_summary returns the
\* sentinel "No text provided for summarization." without calling the
\* engine; generate_all_summaries("") returns three sentinels, calls the
\* engine zero times and does not raise.
C3_BlankTextSentinel ==
    /\ \A i \in 1..Len(adapterLog) :
         OnlyWhitespace(adapterLog[i].text) =>
            /\ adapterLog[i].ret = "No text provided for summarization."
            /\ adapterLog[i].calls = << >>
            /\ adapterLog[i].raised = "none"
    /\ (op = "triple" /\ pc = "done" /\ OnlyWhitespace(text)) =>
          /\ result = << "No text provided for summarization.",
                         "No text provided for summarization.",
                         "No text provided for summarization." >>
          /\ engineLog = << >>
          /\ raised = "none"

C3_Witness ==
    /\ op = "triple"
    /\ pc = "done"
    /\ text = ""
    /\ Len(adapterLog) = 3
    /\ engineLog = << >>
    /\ result = <<NoTextSentinel, NoTextSentinel, NoTextSentinel>>

\* C4 as stated: every string generate_summary returns has no leading or
\* trailing white space, on the success, sentinel and failure paths alike.
C4_ReturnIsStripped ==
    \A i \in 1..Len(adapterLog) : NoOuterWhitespace(adapterLog[i].ret)

C5_Expected == <<
    [audience_role |-> "general_public", abstraction_level |-> "high",
     min_length |-> 8, max_length |-> 20],
    [audience_role |-> "emergency_responders", abstraction_level |-> "medium",
     min_length |-> 25, max_length |-> 60],
    [audience_role |-> "authorities", abstraction_level |-> "low",
     min_length |-> 60, max_length |-> 150] >>

\* C5: generate_all_summaries(text) makes exactly three adapter calls on the
\* same text, in the order alert, operational, strategic, with the roles,
\* abstraction levels and bounds of the plan and sampling off, and returns
\* the three results in that order.
C5_ThreePassPlan ==
    op = "triple" =>
       /\ Len(adapterLog) <= 3
       /\ \A i \in 1..Len(adapterLog) :
            /\ adapterLog[i].text = text
            /\ adapterLog[i].audience_role = C5_Expected[i].audience_role
            /\ adapterLog[i].abstraction_level = C5_Expected[i].abstraction_level
            /\ adapterLog[i].min_length = C5_Expected[i].min_length
            /\ adapterLog[i].max_length = C5_Expected[i].max_length
            /\ adapterLog[i].do_sample = FALSE
       /\ pc = "done" =>
            /\ Len(adapterLog) = 3
            /\ result = <<Rets[1], Rets[2], Rets[3]>>

C5_Witness ==
    /\ op = "triple"
    /\ pc = "done"
    /\ ~OnlyWhitespace(text)
    /\ Len(adapterLog) = 3
    /\ Len(engineLog) = 3
    /\ result[1] # result[2]
    /\ result[2] # result[3]
    /\ result[1] # result[3]

Requests(log) == [i \in 1..Len(log) |-> log[i].req]

\* C6: with sampling off and a deterministic engine, a second invocation of
\* generate_all_summaries on the same text sends the engine the same prompts
\* and bounds as the first and returns the same triple.
C6_RepeatIsIdentical ==
    (op = "triple" /\ Len(prev) = 1) =>
       /\ Len(engineLog) <= Len(prev[1].engineLog)
       /\ \A i \in 1..Len(engineLog) : engineLog[i].req = prev[1].engineLog[i].req
       /\ pc = "done" =>
            /\ Requests(engineLog) = Requests(prev[1].engineLog)
            /\ result = prev[1].result

C6_Witness ==
    /\ op = "triple"
    /\ Len(prev) = 1
    /\ pc = "done"
    /\ Len(engineLog) = 3
    /\ result = prev[1].result
    /\ result[1] # result[2]

FirstOccurrence(s, sub) ==
    CHOOSE i \in Occurrences(s, sub) : \A j \in Occurrences(s, sub) : i <= j

\* C7 as stated: whatever the engine returns, the document holds each of the
\* six section headers exactly once, in the fixed order.
C7_HeadersOnceInOrder ==
    (op = "report" /\ pc = "done" /\ raised = "none") =>
       /\ \A i \in 1..6 : Cardinality(Occurrences(result[1], Headers[i])) = 1
       /\ \A i \in 1..5 :
            FirstOccurrence(result[1], Headers[i]) < FirstOccurrence(result[1], Headers[i + 1])

\* C8 as stated: generate_all_summaries_with_structured_report never sends
\* the engine a request with the strategic pass parameters.
C8_NoStrategicCall ==
    op = "full" =>
       \A i \in 1..Len(engineLog) :
          ~ /\ engineLog[i].req.max_length = 150
            /\ engineLog[i].req.min_length = 60
            /\ StartsWith(engineLog[i].req.prompt, "AUDIENCE: GOVERNMENT AUTHORITIES.")

C9_Rank ==
    [p \in {"idle", "enter", "title", "introduction", "details", "impact", "response",
            "aftermath", "diversity", "assemble", "return", "done"} |->
        CASE p = "idle" -> 0
          [] p = "enter" -> 1
          [] p = "title" -> 2
          [] p = "introduction" -> 3
          [] p = "details" -> 4
          [] p = "impact" -> 5
          [] p = "response" -> 6
          [] p = "aftermath" -> 7
          [] p = "diversity" -> 8
          [] p = "assemble" -> 9
          [] p = "return" -> 10
          [] p = "done" -> 11]

\* how the prompt of each of the six engine requests begins, and its bounds
C9_Requests == <<
    [lead |-> "Create a concise, professional title for this ", max_length |-> 15, min_length |-> 5],
    [lead |-> "Question: What type of disaster, when did it occur, and where?", max_length |-> 80, min_length |-> 30],
    [lead |-> "Question: How did this disaster develop and progress?", max_length |-> 100, min_length |-> 40],
    [lead |-> "Question: What are the human casualties,", max_length |-> 100, min_length |-> 40],
    [lead |-> "Question: What rescue operations,", max_length |-> 80, min_length |-> 30],
    [lead |-> "Question: What are the ongoing risks,", max_length |-> 80, min_length |-> 30] >>

EndsWith(s, tail) ==
    Len(tail) <= Len(s) /\ SubSeq(s, Len(s) - Len(tail) + 1, Len(s)) = tail

\* engine calls made once the report stands at position p
C9_CallsAt(p) ==
    IF C9_Rank[p] <= 2 THEN 0
    ELSE IF C9_Rank[p] >= 8 THEN 6
    ELSE C9_Rank[p] - 2

\* C9: one invocation of generate_structured_report moves strictly forward
\* through start, title, the five sections, the diversity check, assembly
\* and return: every step advances by exactly one position, the engine is
\* called once per section in the order title, introduction, details,
\* impact, response, aftermath, and the diversity check is the one step
\* between the sixth call and assembly.
C9_StrictlyForward ==
    [][op' = "report" =>
          /\ C9_Rank[pc'] = C9_Rank[pc] + 1
          /\ Len(engineLog') = C9_CallsAt(pc')
          /\ \A i \in 1..Len(engineLog') :
               /\ StartsWith(engineLog'[i].req.prompt, C9_Requests[i].lead)
               /\ EndsWith(engineLog'[i].req.prompt, IF i = 1 THEN Take(text', 200) ELSE text')
               /\ engineLog'[i].req.max_length = C9_Requests[i].max_length
               /\ engineLog'[i].req.min_length = C9_Requests[i].min_length
          /\ (sections' # sections /\ C9_Rank[pc] >= 8) => pc = "diversity"
          /\ report' # report => pc = "assemble"]_vars

C9_Witness ==
    /\ op = "report"
    /\ pc = "done"
    /\ Len(engineLog) = 6
    /\ sections.details # adapterLog[3].ret
    /\ Len(report) > 0

C10_Categories == <<
    [name |-> "earthquake", keywords |-> {"earthquake", "seismic", "tremor", "richter"}],
    [name |-> "flood", keywords |-> {"flood", "flooding", "inundation", "water"}],
    [name |-> "cyclone", keywords |-> {"cyclone", "hurricane", "typhoon", "storm"}],
    [name |-> "wildfire", keywords |-> {"wildfire", "fire", "blaze", "burning"}],
    [name |-> "tsunami", keywords |-> {"tsunami", "tidal wave"}],
    [name |-> "drought", keywords |-> {"drought", "dry", "water shortage"}] >>

C10_Matches(t) ==
    {i \in 1..Len(C10_Categories) :
        \E w \in C10_Categories[i].keywords : Contains(Lower(t), w)}

\* C10: _detect_disaster_type returns the first category, in the order
\* earthquake, flood, cyclone, wildfire, tsunami, drought, one of whose
\* keywords the lower-cased text contains, and "disaster" when none does; a
\* text with an earthquake keyword and a flood keyword gives "earthquake".
C10_FirstMatchingCategory ==
    (op = "detect" /\ pc = "done") =>
       /\ C10_Matches(text) = {} => result = <<"disaster">>
       /\ C10_Matches(text) # {} =>
            \E i \in C10_Matches(text) :
               /\ \A j \in C10_Matches(text) : i <= j
               /\ result = <<C10_Categories[i].name>>
       /\ {1, 2} \subseteq C10_Matches(text) => result = <<"earthquake">>

C10_Witness ==
    /\ op = "detect"
    /\ pc = "done"
    /\ text = "flooding Earthquake"
    /\ result = <<"earthquake">>


\* C11: whenever the trimmed, lower-cased first 50 characters of the introduction
\* and of the details are identical, _ensure_section_diversity prefixes the details
\* with the progression clause, and afterwards the first 50 characters of the
\* details differ from the introduction's
C11_CollidingDetailsRepaired ==
    (op = "diversity" /\ pc = "done"
        /\ Strip(Lower(Take(args.introduction, 50))) = Strip(Lower(Take(args.details, 50))))
    => /\ sections.details = ProgressionClause \o args.details
       /\ Take(sections.details, 50) # Take(sections.introduction, 50)

\* C12: an audience role or abstraction level outside the supported values makes
\* generate_summary raise
C12_UnsupportedTagRaises ==
    (op = "summary"
        /\ \/ args.audience_role \notin {None, "general_public", "emergency_responders",
                                         "authorities"}
           \/ args.abstraction_level \notin {None, "high", "medium", "low"})
    => raised # "none"

\* text[:4096]
C15_Truncated(t) == IF Len(t) <= 4096 THEN t ELSE SubSeq(t, 1, 4096)

C15_IsErrorString(s) ==
    LET p == "Error generating summary: "
    IN Len(s) >= Len(p) /\ SubSeq(s, 1, Len(p)) = p

\* C15: without role and level the prompt handed to the engine is the text itself
\* when it has at most 4096 characters and its first 4096 characters otherwise;
\* nothing is raised, and an answer of the engine is not turned into an error string
C15_UnguidedPromptIsTruncatedText ==
    (op = "summary" /\ args.audience_role = None /\ args.abstraction_level = None
        /\ ~OnlyWhitespace(text))
    => /\ Len(engineLog) = 1
       /\ engineLog[1].req.prompt = C15_Truncated(text)
       /\ raised = "none"
       /\ engineLog[1].out.kind = "ok" => ~C15_IsErrorString(result[1])

\* an unguided call on a text longer than 4096 characters has reached the engine
C15_Witness ==
    /\ op = "summary" /\ args.audience_role = None /\ args.abstraction_level = None
    /\ Len(text) > 4096
    /\ Len(engineLog) = 1
    /\ Len(engineLog[1].req.prompt) = 4096

C16_RoleSentence ==
    [general_public |->
        "AUDIENCE: GENERAL PUBLIC. TASK: Write a simple, non-technical, easy-to-understand summary that explains what happened and basic safety implications.",
     emergency_responders |->
        "AUDIENCE: EMERGENCY RESPONDERS. TASK: Write an operational situation summary focusing on affected areas, current conditions, access constraints, and information useful for field coordination.",
     authorities |->
        "AUDIENCE: GOVERNMENT AUTHORITIES. TASK: Write a strategic overview focusing on overall impact, key figures, priorities, and coordination needs for decision-makers."]

C16_LevelSentence ==
    [high |->
        "ABSTRACTION LEVEL: HIGH. Focus on only the most critical points, avoid technical details, and keep the summary very short.",
     medium |->
        "ABSTRACTION LEVEL: MEDIUM. Balance brevity with operationally useful details while keeping the text readable.",
     low |->
        "ABSTRACTION LEVEL: LOW. Include key figures, concrete impacts, and nuanced context while remaining concise."]

\* the role sentence, then the level sentence, a single space between the two
C16_Guidance(role, level) ==
    IF role = None THEN C16_LevelSentence[level]
    ELSE IF level = None THEN C16_RoleSentence[role]
    ELSE C16_RoleSentence[role] \o " " \o C16_LevelSentence[level]

\* C16: with a supported role or level supplied, the prompt is the role sentence
\* (if a role is given) followed by the level sentence (if a level is given), the
\* separator "\n\nDisaster report:\n" and the text cut to 4096 characters; the
\* three roles and the three levels each have their own sentence, and the prompt
\* depends on nothing but text, role and level
C16_GuidedPromptLayout ==
    /\ Cardinality({C16_RoleSentence[r] : r \in DOMAIN C16_RoleSentence}) = 3
    /\ Cardinality({C16_LevelSentence[l] : l \in DOMAIN C16_LevelSentence}) = 3
    /\ (op = "summary"
          /\ args.audience_role \in DOMAIN C16_RoleSentence \cup {None}
          /\ args.abstraction_level \in DOMAIN C16_LevelSentence \cup {None}
          /\ (args.audience_role # None \/ args.abstraction_level # None)
          /\ ~OnlyWhitespace(text))
       => /\ Len(engineLog) = 1
          /\ engineLog[1].req.prompt =
                C16_Guidance(args.audience_role, args.abstraction_level)
                \o "\n\nDisaster report:\n" \o C15_Truncated(text)

\* a call with both a role and a level on a text longer than 4096 characters has
\* reached the engine
C16_Witness ==
    /\ op = "summary"
    /\ args.audience_role = "emergency_responders"
    /\ args.abstraction_level = "low"
    /\ Len(text) > 4096
    /\ Len(engineLog) = 1

\* the engine calls of the three-pass plan and of the structured report
C17_Calls ==
    IF op \in {"triple", "report", "full"}
    THEN {engineLog[i].req : i \in DOMAIN engineLog}
    ELSE {}

C17_IsAlert(q) == q.min_length = 8 /\ q.max_length = 20

C17_IsTitle(q) == q.min_length = 5 /\ q.max_length = 15

\* C17 as stated: in every engine call of the three-pass plan and of the structured
\* report min_length <= max_length, every call other than the alert call has both
\* bounds strictly above the alert bounds (8, 20), and the strategic bounds
\* (60, 150) are the largest
C17_AlertBoundsSmallest ==
    \A q \in C17_Calls :
        /\ q.min_length <= q.max_length
        /\ ~C17_IsAlert(q) => (q.min_length > 8 /\ q.max_length > 20)
        /\ q.min_length <= 60 /\ q.max_length <= 150

\* C17: in every engine call of the three-pass plan and of the structured report
\* min_length <= max_length; every call other than the alert call and the title
\* call has both bounds strictly above the alert bounds (8, 20), while the title
\* bounds (5, 15) lie strictly below them; no call exceeds the strategic bounds
\* (60, 150)
C17_BoundsOrdered ==
    \A q \in C17_Calls :
        /\ q.min_length <= q.max_length
        /\ \/ C17_IsAlert(q)
           \/ C17_IsTitle(q)
           \/ (q.min_length > 8 /\ q.max_length > 20)
        /\ q.min_length <= 60 /\ q.max_length <= 150

\* the combined operation has made all nine engine calls: alert, operational and
\* strategic pass, title and five sections
C17_Witness ==
    /\ op = "full"
    /\ pc = "done"
    /\ Len(engineLog) = 9
    /\ C17_IsAlert(engineLog[1].req)
    /\ C17_IsTitle(engineLog[4].req)
    /\ engineLog[3].req.max_length = 150

\* C18 (first half): every slot returned by generate_all_summaries and by
\* generate_all_summaries_with_structured_report is a non-empty string, whatever
\* the engine did
C18_NoEmptySlot ==
    (op \in {"triple", "full"} /\ pc = "done" /\ raised = "none")
    => \A i \in DOMAIN result : result[i] # ""

\* the summarizer objects st.session_state keeps alive
C13_Held(ss) ==
    (IF "summarizer" \in DOMAIN ss THEN {ss.summarizer.id} ELSE {})
    \cup (IF "report_generator" \in DOMAIN ss
          THEN {ss.report_generator.summarizer.id}
          ELSE {})

\* C13: over any sequence of requests the session keeps at most one summarizer; a
\* request of the page constructs one only when nothing is cached or the cached
\* configuration differs by value from the requested one, and with an equal
\* configuration it generates with the cached object; the module-level function,
\* which has no cache, leaves the session's untouched
C13_OneEngineRebuiltOnChange ==
    [][ /\ Cardinality(C13_Held(session_state')) <= 1
        /\ op' = "page" =>
              LET config == callers'[1].config
                  cached == "summarizer_config" \in DOMAIN session_state
              IN /\ built' # built =>
                       (~cached \/ session_state.summarizer_config # config)
                 /\ (cached /\ session_state.summarizer_config = config) =>
                       /\ built' = built
                       /\ session_state'.summarizer = session_state.summarizer
                       /\ callers'[1].observed.engine = session_state.summarizer
        /\ op' = "function" => session_state' = session_state ]_vars

\* the second request of a session was served by the summarizer the first built
C13_Witness ==
    /\ op = "page"
    /\ callers[1].runs = 2
    /\ callers[1].pc = "done"
    /\ built = 1
    /\ callers[1].observed.engine.id = 1

\* what a script run read is one fully initialized cache: the configuration is the
\* one the summarizer was built with and the report generator wraps that summarizer
C14_Whole(o) ==
    /\ o.summarizer_config = o.summarizer.config
    /\ o.report_generator.summarizer = o.summarizer

\* C14: with two script runs in the handler at once, at most one of them is
\* inside the rebuild (lines 152-155) at a time, and what a script run reads when
\* it generates is the old or the new (summarizer, configuration, report generator),
\* never a mixture
C14_ExclusiveRebuild ==
    /\ Cardinality({c \in Callers : callers[c].pc \in {"construct", "store_config", "wrap"}}) <= 1
    /\ \A c \in Callers : callers[c].pc = "done" => C14_Whole(callers[c].observed)

\* the failures transcribe_audio surfaces when FFmpeg is missing
C19_MissingToolFailures ==
    {<<r.raised, r.msg>> :
        r \in {TranscribeAudio("report.wav", {"report.wav"}, o) :
                  o \in {b \in BackendOutcomes : b.kind = "raise" /\ b.cause = "ffmpeg_missing"}}}

\* C19: a missing FFmpeg leaves transcribe_audio as a raised failure, never as a
\* returned transcript, and no other failure of transcribe_audio (a missing audio
\* file, any other transcription error) surfaces as the same failure, by type and
\* message, as a missing FFmpeg does
C19_MissingToolDistinguishable ==
    (op = "transcribe" /\ pc = "done")
    => /\ (backend.kind = "raise" /\ backend.cause = "ffmpeg_missing") => raised # "none"
       /\ (raised # "none"
             /\ ~(backend.kind = "raise" /\ backend.cause = "ffmpeg_missing"))
          => <<raised, errorMsg>> \notin C19_MissingToolFailures

\* C20: an exception leaves process_audio_file / process_audio_bytes only when
\* FFmpeg is missing at the transcription backend; every other failure ends in
\* returned output
C20_OnlyMissingToolRaises ==
    (op \in {"audio_file", "audio_bytes"} /\ pc = "done" /\ raised # "none")
    => (backend.kind = "raise" /\ backend.cause = "ffmpeg_missing")

\* number of words of s
C21_Words(s) ==
    Cardinality({i \in 1..Len(s) :
                    Char(s, i) \notin {" ", "\n", "\t"}
                    /\ (i = 1 \/ Char(s, i - 1) \in {" ", "\n", "\t"})})

\* generate_all_summaries has returned for a text that is not blank, the engine
\* having respected the bounds of each pass
C21_Returned ==
    op = "bounded" /\ pc = "done" /\ ~OnlyWhitespace(text) /\ Len(result) = 3

C22_BylineDateAtAssembly ==
    [][ (pc = "assemble" /\ pc' = "return")
        => Contains(report', "Disaster Assessment Report | Generated on " \o today \o "\n") ]_vars

\* the engine calls bounded to (min 5, max 15)
C23_TitleCalls ==
    {i \in DOMAIN engineLog :
        engineLog[i].req.min_length = 5 /\ engineLog[i].req.max_length = 15}

\* C23: the title comes from one engine call bounded to (min 5, max 15) whose
\* prompt embeds the detected disaster type and the first 200 characters of the
\* text, and the title placed in the document never ends with a punctuation
\* character
C23_TitleWithoutTrailingPunctuation ==
    (op = "report" /\ pc = "done" /\ raised = "none")
    => /\ Cardinality(C23_TitleCalls) = 1
       /\ \A i \in C23_TitleCalls :
             engineLog[i].req.prompt =
                "Create a concise, professional title for this " \o disaster_type
                \o " disaster report: "
                \o (IF Len(text) <= 200 THEN text ELSE SubSeq(text, 1, 200))
       /\ Len(title) > 0 => SubSeq(title, Len(title), Len(title))
                               \notin {".", "!", "?", ",", ";", ":"}
       /\ SubSeq(result[1], 1, Len("**TITLE & BYLINE**\n" \o title \o "\n"))
             = "**TITLE & BYLINE**\n" \o title \o "\n"

\* s[:50].lower().strip(), in the claims about the diversity repair
C24_Start(s) == Strip(Lower(IF Len(s) <= 50 THEN s ELSE SubSeq(s, 1, 50)))

C24_Begins(s, p) == Len(s) >= Len(p) /\ SubSeq(s, 1, Len(p)) = p

\* C24: when the impact section's opening collides with the introduction's or
\* the details' and the impact section has casualty or damage vocabulary, the
\* repair replaces its leading clause by an attribution phrase, and the repair
\* makes no engine call
C24_CollidingImpactAttributed ==
    (op = "diversity" /\ pc = "done"
        /\ C24_Start(args.impact) \in {C24_Start(args.introduction), C24_Start(args.details)}
        /\ \E w \in {"casualties", "injured", "damage", "destroyed", "evacuated"} :
              Contains(Lower(args.impact), w))
    => /\ sections.impact # args.impact
       /\ \/ C24_Begins(sections.impact, "According to initial reports,")
          \/ C24_Begins(sections.impact, "Initial assessments indicate")
       /\ engineLog = << >>

\* the lines of r that are not blank and hold no header keyword
C25_ContentLines(r) ==
    {SplitLines(r)[k] : k \in {j \in DOMAIN SplitLines(r) :
        /\ Strip(SplitLines(r)[j]) # ""
        /\ \/ Len(Strip(SplitLines(r)[j])) >= 100
           \/ \A key \in {"TITLE", "BYLINE", "INTRODUCTION", "DETAILS", "IMPACT",
                          "RESPONSE", "AFTERMATH", "LESSONS"} :
                 ~Contains(Upper(SplitLines(r)[j]), key)}}

C25_Lines(r) == {SplitLines(r)[k] : k \in DOMAIN SplitLines(r)}

\* the output of _post_process_report holds the title header
C25_TitleHeaderPresent ==
    (op = "post_process" /\ pc = "done")
    => Contains(prev[1].result[1], "**TITLE & BYLINE**")

\* every line without a header keyword is a line of the output, as it was
C25_ContentUntouched ==
    (op = "post_process" /\ pc = "done")
    => C25_ContentLines(prev[1].text) \subseteq C25_Lines(prev[1].result[1])

\* processing the output again returns the output
C25_Idempotent ==
    (op = "post_process" /\ pc = "done") => result[1] = prev[1].result[1]

\* C25: _post_process_report leaves every line that is not a header as it was,
\* its output always holds the title header, and applied to its own output it
\* returns that output unchanged
C25_PureNormalization ==
    C25_TitleHeaderPresent /\ C25_ContentUntouched /\ C25_Idempotent

C26_DroughtKeywords == {"drought", "dry", "water shortage"}

C26_OtherKeywords ==
    {"earthquake", "seismic", "tremor", "richter", "flood", "flooding", "inundation",
     "water", "cyclone", "hurricane", "typhoon", "storm", "wildfire", "fire", "blaze",
     "burning", "tsunami", "tidal wave"}

\* every occurrence of w in t lies inside an occurrence of a drought keyword
C26_OnlyThroughDrought(t, w) ==
    \A i \in Occurrences(t, w) :
        \E k \in C26_DroughtKeywords : \E j \in Occurrences(t, k) :
            j <= i /\ i + Len(w) <= j + Len(k)

\* C26: a text that holds a drought keyword ('drought', 'dry', 'water shortage')
\* and holds keywords of other categories only inside its drought keywords is
\* classified as drought; so is a text whose only hazard phrase is 'water shortage'
C26_DroughtKeywordDecides ==
    (op = "detect" /\ pc = "done"
        /\ \E k \in C26_DroughtKeywords : Contains(Lower(text), k)
        /\ \A w \in C26_OtherKeywords : C26_OnlyThroughDrought(Lower(text), w))
    => result = <<"drought">>

\* C27: for an empty or white-space-only text generate_structured_report makes
\* no engine call, and every section of the document holds the sentinel
\* "No text provided for summarization."
C27_BlankTextShortCircuits ==
    (op = "report" /\ pc = "done"
        /\ \A i \in 1..Len(text) : Char(text, i) \in {" ", "\t", "\n", "\r", "\f"})
    => /\ engineLog = << >>
       /\ \A k \in {"introduction", "details", "impact", "response", "aftermath"} :
             sections[k] = "No text provided for summarization."

\* the cache holds nothing, or a summarizer, the configuration it was constructed
\* with and a report generator that wraps it
C28_Consistent(ss) ==
    \/ DOMAIN ss = {}
    \/ /\ DOMAIN ss = {"summarizer", "summarizer_config", "report_generator"}
       /\ ss.report_generator.summarizer = ss.summarizer
       /\ ss.summarizer_config = ss.summarizer.config

\* C28: after every request of a session the cached report generator wraps the
\* cached summarizer and the cached configuration is the one that summarizer was
\* constructed with; a request whose construction raises leaves the cached
\* summarizer, configuration and report generator as they were
C28_CacheConsistentAcrossFailures ==
    [][ /\ C28_Consistent(session_state')
        /\ (op' = "page" /\ callers'[1].pc = "failed") => session_state' = session_state
      ]_vars

\* a construction failed after a summarizer was cached, and the first summarizer
\* is still the cached one
C28_Witness ==
    /\ op = "page"
    /\ callers[1].pc = "failed"
    /\ built = 3
    /\ "summarizer" \in DOMAIN session_state
    /\ session_state.summarizer.id = 2
    /\ session_state.report_generator.summarizer.id = 2

\* C29: once process_audio_bytes has returned or raised, the temporary file it
\* created no longer exists, and a call whose transcription failed or gave no
\* text has made no engine call
C29_TempFileRemoved ==
    (op = "audio_bytes" /\ pc = "done")
    => /\ "/tmp/tmpk3v9x2.wav" \notin files
       /\ (raised # "none" /\ triple = << >>) => engineLog = << >>

\* C30: _ensure_section_diversity returns the mapping with the same keys and the
\* same introduction, response and aftermath; without a collision of openings it
\* returns every section as it was; details change only when their opening, as
\* passed in, equals the introduction's, and impact changes only when its opening
\* equals the introduction's or the details' as passed in
C30_OnlyDetailsAndImpactChange ==
    (op = "diversity" /\ pc = "done")
    => LET intro_start == C24_Start(args.introduction)
           details_start == C24_Start(args.details)
           impact_start == C24_Start(args.impact)
       IN /\ DOMAIN sections = DOMAIN args
          /\ \A k \in {"introduction", "response", "aftermath"} : sections[k] = args[k]
          /\ (intro_start # details_start /\ impact_start \notin {intro_start, details_start})
                => sections = args
          /\ sections.details # args.details => intro_start = details_start
          /\ sections.impact # args.impact => impact_start \in {intro_start, details_start}

\* the details were repaired, and an impact section that opens like the repaired
\* details, not like the details passed in, was left as it was
C30_Witness ==
    /\ op = "diversity"
    /\ pc = "done"
    /\ sections.details # args.details
    /\ C24_Start(sections.details) = C24_Start(args.impact)
    /\ sections.impact = args.impact
    /\ Contains(args.impact, "destroyed")

=============================================================================
